---- MODULE Spec2Model ----
(***************************************************************************)
(* Model of the Feishu long-connection client (src/src/websocket.rs) and   *)
(* of the reconnect loop that drives it (src/src/main.rs, run_connect).    *)
(*                                                                         *)
(* Two tasks run per session: the task that executes connect() (endpoint   *)
(* discovery, socket open, receive loop, shutdown) and the heartbeat task  *)
(* spawned by it.  They share the atomic flag `connected`, the atomic      *)
(* `ping_interval_secs` and the tokio Mutex around the socket's write half.*)
(* Every action below is one stretch of code between two points where the  *)
(* task can be suspended or where it touches shared state.                 *)
(*                                                                         *)
(* Optional values (Rust Option<T>) are sequences of length 0 or 1.        *)
(*                                                                         *)
(* Three smaller programs of the repository follow the client, each with   *)
(* its own variables and its own specification, the variables of the       *)
(* others staying as they are after construction: the relay server         *)
(* (src/relay-server/src), VfsConfig and the remote worker                 *)
(* (src/src-tauri/src/remote_worker.rs).                                   *)
(***************************************************************************)
EXTENDS Integers, Sequences, FiniteSets, TLC

VARIABLES
    attempt,             \* number of connect() calls made by run_connect
    pc,                  \* position of the task running run_connect/connect
    result,              \* what the last finished connect() returned
    connected,           \* FeishuWsClient.connected (AtomicBool)
    ping_interval_secs,  \* FeishuWsClient.ping_interval_secs (AtomicU64)
    lock,                \* owner of the Mutex around the write half
    hbPc,                \* position of the heartbeat task of this attempt
    hbInterval,          \* the heartbeat's local interval_secs
    hbAborted,           \* heartbeat_handle.abort() has been called
    hbWrites,            \* history: pings the heartbeat sent in this attempt
    cur,                 \* the inbound message being handled (or the last one)
    events,              \* history: what handling `cur` has done so far
    msgs,                \* inbound messages read in this attempt
    lastResult,          \* what handle_message returned for `cur`
    prevResult,          \* lastResult of the message before `cur`
    sess,                \* history: what this attempt has done so far
    rooms,               \* relay server: AppState.rooms, task_id -> channel
    conns,               \* relay server: the connections handle_socket serves
    chans,               \* relay server: broadcast channels created so far
    sends,               \* relay server history: text messages broadcast
    mappings,            \* VfsConfig.mappings
    query,               \* the path given to a VfsConfig lookup
    resolved,            \* what the lookup returned
    wkPc,                \* remote worker: position of the receiver task
    child,               \* RemoteWorker.child
    stdin,               \* RemoteWorker.stdin
    inbox,               \* remote worker: messages the socket holds unread
    outbox,              \* remote worker: messages handed to the sender task
    cmds                 \* remote worker history: what happened to each message

vars == <<attempt, pc, result, connected, ping_interval_secs, lock, hbPc,
          hbInterval, hbAborted, hbWrites, cur, events, msgs, lastResult,
          prevResult, sess>>
relayVars == <<rooms, conns, chans, sends>>
vfsVars == <<mappings, query, resolved>>
workerVars == <<wkPc, child, stdin, inbox, outbox, cmds>>
wsRest == <<relayVars, vfsVars, workerVars>>
relayRest == <<vars, vfsVars, workerVars>>
vfsRest == <<vars, relayVars, workerVars>>
workerRest == <<vars, relayVars, vfsVars>>

(***************************************************************************)
(* Bounds of the model.                                                    *)
(***************************************************************************)
MaxAttempts == 2      \* connect() calls explored
MaxMsgs == 2          \* non-terminal inbound messages per attempt
MaxPings == 2         \* heartbeat wake-ups per attempt

(***************************************************************************)
(* Program constants.                                                      *)
(***************************************************************************)
FRAME_METHOD_CONTROL == 1
FRAME_METHOD_DATA == 2
DEFAULT_PING_INTERVAL == 30
GZIP_MAGIC_0 == 31
GZIP_MAGIC_1 == 139

HEADER_TYPE == "type"
HEADER_MESSAGE_ID == "message_id"
HEADER_SUM == "sum"
HEADER_SEQ == "seq"
HEADER_TRACE_ID == "trace_id"

MSG_TYPE_PING == "ping"
MSG_TYPE_PONG == "pong"
MSG_TYPE_EVENT == "event"
MSG_TYPE_ACK == "ack"

None == <<>>
Some(x) == <<x>>
IsSome(o) == Len(o) = 1
IsNone(o) == Len(o) = 0
Unwrap(o) == o[1]
UnwrapOr(o, d) == IF IsSome(o) THEN o[1] ELSE d

(***************************************************************************)
(* u64 values are four 16-bit limbs, most significant first, so that the   *)
(* `as u64` conversion of a negative i32 keeps its real value.             *)
(***************************************************************************)
Limb == 256 * 256
U64(n) == <<0, 0, n \div Limb, n % Limb>>
AsU64(i) ==
    IF i >= 0
        THEN U64(i)
        ELSE <<Limb - 1, Limb - 1,
               ((i + 2147483647 + 1) \div Limb) + 32768,
               (i + 2147483647 + 1) % Limb>>

(***************************************************************************)
(* Frames and headers (the prost message pbbp2.Frame).                     *)
(***************************************************************************)
Header(k, v) == [key |-> k, value |-> v]

Min(S) == CHOOSE x \in S : \A y \in S : x <= y

\* a lookup that returns the last header with the key
get_header_value_LastMatch(frame, key) ==
    LET hits == {i \in 1..Len(frame.headers) : frame.headers[i].key = key}
    IN  IF hits = {} THEN None
        ELSE Some(frame.headers[CHOOSE i \in hits : \A j \in hits : j <= i].value)

\* frame.headers.iter().find(|h| h.key == key).map(|h| h.value.clone())
get_header_value(frame, key) ==
    LET hits == {i \in 1..Len(frame.headers) : frame.headers[i].key = key}
    IN  IF hits = {} THEN None ELSE Some(frame.headers[Min(hits)].value)

create_control_frame(service_id, headers) ==
    [seq_id |-> 0, log_id |-> 0, service |-> service_id,
     method |-> FRAME_METHOD_CONTROL, headers |-> headers,
     payload_encoding |-> None, payload_type |-> None, payload |-> None]

create_ping_frame(service_id) ==
    [seq_id |-> 0, log_id |-> 0, service |-> service_id,
     method |-> FRAME_METHOD_CONTROL,
     headers |-> <<Header(HEADER_TYPE, MSG_TYPE_PING)>>,
     payload_encoding |-> None, payload_type |-> None, payload |-> None]

\* send_pong that answers with the service id of the heartbeat's ping
pong_frame_ServiceZero(service_id) ==
    create_control_frame(0, <<Header(HEADER_TYPE, MSG_TYPE_PONG)>>)

\* send_pong: the frame it builds
pong_frame(service_id) ==
    create_control_frame(service_id, <<Header(HEADER_TYPE, MSG_TYPE_PONG)>>)

\* send_ack that only looks for message_id before building the ack
ack_frame_OnlyMessageId(frame) ==
    LET message_id == get_header_value(frame, HEADER_MESSAGE_ID)
    IN  IF IsNone(message_id)
            THEN None
            ELSE Some(create_control_frame(frame.service,
                     <<Header(HEADER_TYPE, MSG_TYPE_ACK),
                       Header(HEADER_MESSAGE_ID, Unwrap(message_id)),
                       Header(HEADER_SUM, UnwrapOr(get_header_value(frame, HEADER_SUM), "")),
                       Header(HEADER_SEQ, UnwrapOr(get_header_value(frame, HEADER_SEQ), ""))>>))

\* send_ack that does not pass trace_id through
ack_frame_DropsTrace(frame) ==
    LET message_id == get_header_value(frame, HEADER_MESSAGE_ID)
        sum == get_header_value(frame, HEADER_SUM)
        seq == get_header_value(frame, HEADER_SEQ)
    IN  IF IsNone(message_id) \/ IsNone(sum) \/ IsNone(seq)
            THEN None
            ELSE Some(create_control_frame(frame.service,
                     <<Header(HEADER_TYPE, MSG_TYPE_ACK),
                       Header(HEADER_MESSAGE_ID, Unwrap(message_id)),
                       Header(HEADER_SUM, Unwrap(sum)),
                       Header(HEADER_SEQ, Unwrap(seq))>>))

\* send_ack up to the lock: None when a header is missing (return Ok(())),
\* otherwise the ack frame that will be sent.
ack_frame(frame) ==
    LET message_id == get_header_value(frame, HEADER_MESSAGE_ID)
        sum == get_header_value(frame, HEADER_SUM)
        seq == get_header_value(frame, HEADER_SEQ)
        trace_id == get_header_value(frame, HEADER_TRACE_ID)
        headers == <<Header(HEADER_TYPE, MSG_TYPE_ACK),
                     Header(HEADER_MESSAGE_ID, UnwrapOr(message_id, "")),
                     Header(HEADER_SUM, UnwrapOr(sum, "")),
                     Header(HEADER_SEQ, UnwrapOr(seq, ""))>>
    IN  IF IsNone(message_id) \/ IsNone(sum) \/ IsNone(seq)
            THEN None
            ELSE Some(create_control_frame(frame.service,
                     IF IsSome(trace_id)
                         THEN Append(headers, Header(HEADER_TRACE_ID, Unwrap(trace_id)))
                         ELSE headers))

(***************************************************************************)
(* Routing of a decoded frame: the handlers handle_message enters for it,  *)
(* in call order.  The last one is the handler that acts.                  *)
(***************************************************************************)
handle_control_frame(frame) ==
    LET msg_type == get_header_value(frame, HEADER_TYPE)
    IN  <<"handle_control_frame">> \o
        (CASE msg_type = Some(MSG_TYPE_PING) -> <<"send_pong">>
           [] msg_type = Some(MSG_TYPE_PONG) -> <<>>
           [] msg_type = Some(MSG_TYPE_EVENT) -> <<"handle_data_frame">>
           [] OTHER -> <<>>)

\* handle_message that answers type=ping whatever the method
handle_message_PingFirst(frame) ==
    LET msg_type == get_header_value(frame, HEADER_TYPE)
    IN  IF msg_type = Some(MSG_TYPE_EVENT)
            THEN <<"handle_data_frame">>
            ELSE IF msg_type = Some(MSG_TYPE_PING)
                     THEN <<"handle_control_frame", "send_pong">>
                     ELSE CASE frame.method = FRAME_METHOD_CONTROL -> handle_control_frame(frame)
                            [] frame.method = FRAME_METHOD_DATA -> <<"handle_data_frame">>
                            [] OTHER -> <<>>

\* handle_message that goes on to the match on method after the event branch
handle_message_NoReturn(frame) ==
    LET msg_type == get_header_value(frame, HEADER_TYPE)
    IN  (IF msg_type = Some(MSG_TYPE_EVENT) THEN <<"handle_data_frame">> ELSE <<>>)
        \o (CASE frame.method = FRAME_METHOD_CONTROL -> handle_control_frame(frame)
              [] frame.method = FRAME_METHOD_DATA -> <<"handle_data_frame">>
              [] OTHER -> <<>>)

\* handle_message without the `type == event` test before the match on method
handle_message_ByMethod(frame) ==
    CASE frame.method = FRAME_METHOD_CONTROL -> handle_control_frame(frame)
      [] frame.method = FRAME_METHOD_DATA -> <<"handle_data_frame">>
      [] OTHER -> <<>>

handle_message(frame) ==
    LET msg_type == get_header_value(frame, HEADER_TYPE)
    IN  IF msg_type = Some(MSG_TYPE_EVENT)
            THEN <<"handle_data_frame">>
            ELSE CASE frame.method = FRAME_METHOD_CONTROL -> handle_control_frame(frame)
                   [] frame.method = FRAME_METHOD_DATA -> <<"handle_data_frame">>
                   [] OTHER -> <<>>

(***************************************************************************)
(* JSON.  A JSON value is a tagged record; a JSON text is a string, and    *)
(* serde_json::from_str is the table of what each text used here parses    *)
(* to (None: not JSON).                                                    *)
(***************************************************************************)
JStr(s) == [t |-> "str", s |-> s]
JNum(n) == [t |-> "num", n |-> n]
JObj(f) == [t |-> "obj", f |-> f]

\* serde_json::Value::get(key)
JGet(v, k) == IF v.t = "obj" /\ k \in DOMAIN v.f THEN Some(v.f[k]) ELSE None
\* Option<&Value>::and_then(|v| v.get(key))
AndThenGet(o, k) == IF IsSome(o) THEN JGet(Unwrap(o), k) ELSE None
\* Option<&Value>::and_then(|v| v.as_str())
AndThenStr(o) == IF IsSome(o) /\ Unwrap(o).t = "str" THEN Some(Unwrap(o).s) ELSE None

EnvHeader(event_type) ==
    JObj([event_id |-> JStr("e1"), event_type |-> JStr(event_type),
          create_time |-> JStr("0"), token |-> JStr("tok"),
          app_id |-> JStr("app"), tenant_key |-> JStr("ten")])

Envelope(event_type, event) ==
    JObj([schema |-> JStr("2.0"), header |-> EnvHeader(event_type), event |-> event])

CardEvent(choice) == JObj([action |-> JObj([value |-> JObj([choice |-> choice])])])
CardEventNoChoice == JObj([action |-> JObj([value |-> JObj([other |-> JStr("x")])])])
MessageEvent(message_type, content) ==
    JObj([message |-> JObj([message_type |-> JStr(message_type),
                            content |-> JStr(content)]),
          sender |-> JObj([sender_id |-> JObj([open_id |-> JStr("ou_1")])])])

\* The texts that occur as payloads and as message contents.
serde_json_from_str(text) ==
    CASE text = "not json" -> None
      [] text = "hello" -> None
      [] text = "1" -> Some(JNum(1))
      [] text = " 2 " -> Some(JNum(2))
      [] text = "{\"a\":1}" -> Some(JObj([a |-> JNum(1)]))
      [] text = "{\"text\":\"2\"}" -> Some(JObj([text |-> JStr("2")]))
      [] text = "{\"text\":\" 1 \"}" -> Some(JObj([text |-> JStr(" 1 ")]))
      [] text = "{\"text\":\"3\"}" -> Some(JObj([text |-> JStr("3")]))
      [] text = "{\"schema\":\"2.0\"}" -> Some(JObj([schema |-> JStr("2.0")]))
      [] text = "env:card:choice=1" -> Some(Envelope("card.action.trigger", CardEvent(JStr("1"))))
      [] text = "env:card:choice=7(number)" -> Some(Envelope("card.action.trigger", CardEvent(JNum(7))))
      [] text = "env:card:nochoice" -> Some(Envelope("card.action.trigger", CardEventNoChoice))
      [] text = "env:msg:text:{text:2}" ->
             Some(Envelope("im.message.receive_v1", MessageEvent("text", "{\"text\":\"2\"}")))
      [] text = "env:msg:text:{text: 1 }" ->
             Some(Envelope("im.message.receive_v1", MessageEvent("text", "{\"text\":\" 1 \"}")))
      [] text = "env:msg:text:{text:3}" ->
             Some(Envelope("im.message.receive_v1", MessageEvent("text", "{\"text\":\"3\"}")))
      [] text = "env:msg:text:1" ->
             Some(Envelope("im.message.receive_v1", MessageEvent("text", "1")))
      [] text = "env:msg:text:hello" ->
             Some(Envelope("im.message.receive_v1", MessageEvent("text", "hello")))
      [] text = "env:msg:image: 2 " ->
             Some(Envelope("im.message.receive_v1", MessageEvent("image", " 2 ")))
      [] text = "env:other" -> Some(Envelope("im.chat.updated_v1", CardEvent(JStr("1"))))
      [] text = "env:Card.Action.Trigger" ->
             Some(Envelope("Card.Action.Trigger", CardEvent(JStr("1"))))
      [] OTHER -> None

\* str::trim on the strings that occur as text contents.
Trim(s) ==
    CASE s = " 1 " -> "1"
      [] s = " 2 " -> "2"
      [] OTHER -> s

IsStrField(v, k) == IsSome(AndThenStr(JGet(v, k)))

\* serde_json::from_str::<EventPayload>: every field of EventPayload and of
\* EventHeader must be present, the strings must be strings.
parse_event_payload(text) ==
    LET v == serde_json_from_str(text)
    IN  IF /\ IsSome(v)
           /\ Unwrap(v).t = "obj"
           /\ IsStrField(Unwrap(v), "schema")
           /\ IsSome(JGet(Unwrap(v), "event"))
           /\ IsSome(JGet(Unwrap(v), "header"))
           /\ LET h == Unwrap(JGet(Unwrap(v), "header"))
              IN  /\ h.t = "obj"
                  /\ \A k \in {"event_id", "event_type", "create_time",
                               "token", "app_id", "tenant_key"} : IsStrField(h, k)
        THEN Some([event_type |-> Unwrap(v).f.header.f.event_type.s,
                   event |-> Unwrap(v).f.event])
        ELSE None

(***************************************************************************)
(* The side effects of an event.  A call is [sink, val]: sink "A" is       *)
(* save_user_choice, sink "B" is send_permission_response.  Each handler   *)
(* makes at most one call.                                                 *)
(***************************************************************************)
SinkCall(s, v) == [sink |-> s, val |-> v]

\* handle_card_action that stores a choice of any JSON type
handle_card_action_AnyChoice(event_data) ==
    LET choice == AndThenGet(AndThenGet(JGet(event_data, "action"), "value"), "choice")
    IN  IF IsSome(choice)
            THEN <<SinkCall("A", IF Unwrap(choice).t = "str"
                                     THEN Unwrap(choice).s ELSE "7")>>
            ELSE <<>>

handle_card_action(event_data) ==
    LET choice == AndThenGet(AndThenGet(JGet(event_data, "action"), "value"), "choice")
    IN  IF IsSome(AndThenStr(choice))
            THEN <<SinkCall("A", Unwrap(AndThenStr(choice)))>>
            ELSE <<>>

\* handle_message_receive: message_type, content and the text taken from them
message_type_of(event_data) ==
    UnwrapOr(AndThenStr(AndThenGet(JGet(event_data, "message"), "message_type")),
             "unknown")

content_of(event_data) ==
    UnwrapOr(AndThenStr(AndThenGet(JGet(event_data, "message"), "content")), "")

text_content(event_data) ==
    LET content == content_of(event_data)
        json == serde_json_from_str(content)
    IN  IF message_type_of(event_data) = "text"
            THEN IF IsSome(json)
                     THEN UnwrapOr(AndThenStr(JGet(Unwrap(json), "text")), "")
                     ELSE content
            ELSE content

\* handle_message_receive that compares the text without trimming it
handle_message_receive_NoTrim(event_data) ==
    LET text == text_content(event_data)
    IN  IF text = "1" \/ text = "2"
            THEN <<SinkCall("B", text)>>
            ELSE <<>>

handle_message_receive(event_data) ==
    LET trimmed == Trim(text_content(event_data))
    IN  IF trimmed = "1" \/ trimmed = "2"
            THEN <<SinkCall("B", trimmed)>>
            ELSE <<>>

\* handle_event that matches the event type without regard to case
handle_event_IgnoreCase(event) ==
    CASE event.event_type \in {"card.action.trigger", "Card.Action.Trigger"} ->
             handle_card_action(event.event)
      [] event.event_type = "im.message.receive_v1" -> handle_message_receive(event.event)
      [] OTHER -> <<>>

handle_event(event) ==
    CASE event.event_type = "card.action.trigger" -> handle_card_action(event.event)
      [] event.event_type = "im.message.receive_v1" -> handle_message_receive(event.event)
      [] OTHER -> <<>>

(***************************************************************************)
(* Payload bytes.  `first2` are the first two bytes, `stream` says what    *)
(* the bytes are: a well-formed gzip member ("gzip"), bytes that start     *)
(* like one but are damaged ("corrupt"), or plain UTF-8 text ("text").     *)
(* `text` is the text the bytes carry (after inflation for "gzip").        *)
(***************************************************************************)
Gzip(text) == [first2 |-> <<GZIP_MAGIC_0, GZIP_MAGIC_1>>, stream |-> "gzip", text |-> text]
CorruptGzip == [first2 |-> <<GZIP_MAGIC_0, GZIP_MAGIC_1>>, stream |-> "corrupt", text |-> ""]
\* plain text never starts with the gzip magic; `{"` stands for its start
Plain(text) == [first2 |-> <<123, 34>>, stream |-> "text", text |-> text]

\* GzDecoder::read_to_string: fails unless the bytes are a well-formed member
GzDecode(payload) ==
    IF payload.stream = "gzip" /\ payload.first2 = <<GZIP_MAGIC_0, GZIP_MAGIC_1>>
        THEN [ok |-> TRUE, text |-> payload.text]
        ELSE [ok |-> FALSE, text |-> ""]

\* str::eq_ignore_ascii_case("gzip") on the encodings that occur
EqIgnoreAsciiCaseGzip(s) == s \in {"gzip", "GZIP", "Gzip"}

\* decode_payload that trusts payload_encoding alone
decode_payload_EncodingOnly(frame) ==
    IF IsNone(frame.payload)
        THEN [ok |-> TRUE, text |-> None]
        ELSE LET payload == Unwrap(frame.payload)
                 is_gzip == EqIgnoreAsciiCaseGzip(UnwrapOr(frame.payload_encoding, ""))
             IN  IF is_gzip
                     THEN IF GzDecode(payload).ok
                              THEN [ok |-> TRUE, text |-> Some(GzDecode(payload).text)]
                              ELSE [ok |-> FALSE, text |-> None]
                     ELSE [ok |-> TRUE, text |-> Some(payload.text)]

\* Result<Option<String>>: [ok, text] with text an Option
decode_payload(frame) ==
    IF IsNone(frame.payload)
        THEN [ok |-> TRUE, text |-> None]
        ELSE LET payload == Unwrap(frame.payload)
                 payload_encoding == UnwrapOr(frame.payload_encoding, "")
                 is_gzip == \/ EqIgnoreAsciiCaseGzip(payload_encoding)
                            \/ payload.first2 = <<GZIP_MAGIC_0, GZIP_MAGIC_1>>
             IN  IF is_gzip
                     THEN IF GzDecode(payload).ok
                              THEN [ok |-> TRUE, text |-> Some(GzDecode(payload).text)]
                              ELSE [ok |-> FALSE, text |-> None]
                     ELSE [ok |-> TRUE, text |-> Some(payload.text)]

\* handle_data_frame that returns the parse error of a text that is no
\* EventPayload instead of dropping it
dispatch_Strict(frame) ==
    LET dp == decode_payload(frame)
        event == IF dp.ok /\ IsSome(dp.text)
                     THEN parse_event_payload(Unwrap(dp.text)) ELSE None
    IN  [ok |-> dp.ok /\ (IsSome(dp.text) => IsSome(event)),
         dropped |-> FALSE,
         calls |-> IF IsSome(event) THEN handle_event(Unwrap(event)) ELSE <<>>]

\* handle_data_frame after the ack: the calls the payload leads to.
\* ok is FALSE when decode_payload fails, which ends the handler with Err;
\* dropped is TRUE when the text is no EventPayload (nothing is done, Ok).
dispatch(frame) ==
    LET dp == decode_payload(frame)
        event == IF dp.ok /\ IsSome(dp.text)
                     THEN parse_event_payload(Unwrap(dp.text)) ELSE None
    IN  [ok |-> dp.ok,
         dropped |-> dp.ok /\ IsSome(dp.text) /\ IsNone(event),
         calls |-> IF IsSome(event) THEN handle_event(Unwrap(event)) ELSE <<>>]

(***************************************************************************)
(* What the peer can send.                                                 *)
(***************************************************************************)
InFrame(method, service, headers, encoding, payload) ==
    [seq_id |-> 0, log_id |-> 0, service |-> service, method |-> method,
     headers |-> headers, payload_encoding |-> encoding,
     payload_type |-> None, payload |-> payload]

TypeHeaders ==
    {<<>>,
     <<Header(HEADER_TYPE, MSG_TYPE_PING)>>,
     <<Header(HEADER_TYPE, MSG_TYPE_PONG)>>,
     <<Header(HEADER_TYPE, MSG_TYPE_EVENT)>>,
     <<Header(HEADER_TYPE, "card")>>,
     <<Header(HEADER_TYPE, MSG_TYPE_EVENT), Header(HEADER_TYPE, MSG_TYPE_PING)>>,
     <<Header(HEADER_TYPE, MSG_TYPE_PING), Header(HEADER_TYPE, MSG_TYPE_EVENT)>>}

AckKeys == {HEADER_MESSAGE_ID, HEADER_SUM, HEADER_SEQ}

AckHeaders(keys, trace) ==
    (IF HEADER_MESSAGE_ID \in keys THEN <<Header(HEADER_MESSAGE_ID, "m1")>> ELSE <<>>)
    \o (IF HEADER_SUM \in keys THEN <<Header(HEADER_SUM, "1")>> ELSE <<>>)
    \o (IF HEADER_SEQ \in keys THEN <<Header(HEADER_SEQ, "0")>> ELSE <<>>)
    \o (IF trace THEN <<Header(HEADER_TRACE_ID, "t1")>> ELSE <<>>)

AllAckHeaders == AckHeaders(AckKeys, FALSE)
EventType == <<Header(HEADER_TYPE, MSG_TYPE_EVENT)>>

\* every method with every `type`, with and without the ack headers
RoutingFrames ==
    {InFrame(m, 7, th \o AckHeaders(keys, FALSE), None,
             Some(Plain("env:card:choice=1"))) :
        m \in {FRAME_METHOD_CONTROL, FRAME_METHOD_DATA, 3},
        th \in TypeHeaders, keys \in {{}, AckKeys}}

\* every subset of the ack headers, with and without trace_id; repeated keys
AckFrames ==
    {InFrame(FRAME_METHOD_DATA, 3, EventType \o AckHeaders(keys, trace), None, None) :
        keys \in SUBSET AckKeys, trace \in BOOLEAN}
    \cup {InFrame(FRAME_METHOD_DATA, 3,
                  EventType \o <<Header(HEADER_MESSAGE_ID, "m2")>>
                      \o AckHeaders(AckKeys, TRUE)
                      \o <<Header(HEADER_SEQ, "9"), Header(HEADER_TRACE_ID, "t2"),
                           Header(HEADER_SUM, "5")>>,
                  None, None)}

PayloadTexts ==
    {"not json", "{\"a\":1}", "{\"schema\":\"2.0\"}",
     "env:card:choice=1", "env:card:choice=7(number)", "env:card:nochoice",
     "env:msg:text:{text:2}", "env:msg:text:{text: 1 }", "env:msg:text:{text:3}",
     "env:msg:text:1", "env:msg:text:hello", "env:msg:image: 2 ",
     "env:other", "env:Card.Action.Trigger"}

EncodedPayloads ==
    {<<None, Plain(t)>> : t \in PayloadTexts}
    \cup {<<enc, Gzip("env:card:choice=1")>> :
              enc \in {None, Some("gzip"), Some("GZIP"), Some("deflate")}}
    \cup {<<None, CorruptGzip>>,
          <<Some("gzip"), Plain("env:card:choice=1")>>,
          <<Some("deflate"), Plain("env:card:choice=1")>>}

PayloadFrames ==
    {InFrame(FRAME_METHOD_DATA, 7, EventType \o AllAckHeaders, ep[1], Some(ep[2])) :
        ep \in EncodedPayloads}

InFrames == RoutingFrames \cup AckFrames \cup PayloadFrames

\* A websocket message as read.next() yields it.  "error" is Some(Err(e)),
\* "eos" is None; a binary message whose bytes are no Frame has no frame.
Msg(kind, frame) == [kind |-> kind, frame |-> frame]
NoMsg == Msg("none", None)
Terminal == {Msg("close", None), Msg("error", None), Msg("eos", None)}
NonTerminal ==
    {Msg("ping", None), Msg("pong", None), Msg("text", None), Msg("binary", None)}
    \cup {Msg("binary", Some(f)) : f \in InFrames}

\* One message for each path through the receive loop, for the runs that
\* explore the interleavings with the heartbeat.
CoreMsgs ==
    {Msg("ping", None), Msg("binary", None),
     Msg("binary", Some(InFrame(FRAME_METHOD_DATA, 7, EventType \o AllAckHeaders, None,
                                Some(Plain("env:card:choice=1"))))),
     Msg("binary", Some(InFrame(FRAME_METHOD_DATA, 7, EventType \o AllAckHeaders, None,
                                Some(Plain("env:msg:text:{text:2}"))))),
     Msg("binary", Some(InFrame(FRAME_METHOD_DATA, 7, EventType \o AllAckHeaders, None,
                                Some(CorruptGzip)))),
     Msg("binary", Some(InFrame(FRAME_METHOD_DATA, 7, EventType, None,
                                Some(Plain("not json"))))),
     Msg("binary", Some(InFrame(FRAME_METHOD_CONTROL, 7, EventType \o AllAckHeaders,
                                Some("gzip"), Some(Gzip("env:card:choice=1"))))),
     Msg("binary", Some(InFrame(FRAME_METHOD_CONTROL, 7,
                                <<Header(HEADER_TYPE, MSG_TYPE_PING)>>, None, None))),
     Msg("binary", Some(InFrame(3, 7, <<>>, None, None)))}

\* The answers endpoint discovery can get.
PingIntervals == {20, 0, -1}
DiscoveryData ==
    {None,
     Some([url |-> "wss://endpoint", client_config |-> None]),
     Some([url |-> "wss://endpoint", client_config |-> Some([ping_interval |-> None])])}
    \cup {Some([url |-> "wss://endpoint",
                client_config |-> Some([ping_interval |-> Some(p)])]) :
              p \in PingIntervals}
Responses ==
    {[http_ok |-> FALSE, code |-> 0, data |-> None]}
    \cup {[http_ok |-> TRUE, code |-> c, data |-> d] : c \in {0, 99991663}, d \in DiscoveryData}

\* data.client_config, then config.ping_interval: the Option<i32> a discovery
\* answer carries
config_ping_interval(resp) ==
    IF IsSome(resp.data) /\ IsSome(Unwrap(resp.data).client_config)
        THEN Unwrap(Unwrap(resp.data).client_config).ping_interval
        ELSE None

\* if let Some(config) = data.client_config { if let Some(interval) =
\* config.ping_interval { .. } }: the interval a discovery answer carries
ping_interval(resp) ==
    IF IsSome(resp.data)
          /\ IsSome(Unwrap(resp.data).client_config)
          /\ IsSome(Unwrap(Unwrap(resp.data).client_config).ping_interval)
        THEN Some(AsU64(Unwrap(Unwrap(Unwrap(resp.data).client_config).ping_interval)))
        ELSE None

\* get_ws_url without the `resp.code != 0` bail
get_ws_url_NoCodeCheck(resp, interval) ==
    IF ~resp.http_ok THEN [ok |-> FALSE, interval |-> interval]
    ELSE IF IsNone(resp.data) THEN [ok |-> FALSE, interval |-> interval]
    ELSE LET config == Unwrap(resp.data).client_config
         IN  [ok |-> TRUE,
              interval |-> IF IsSome(config) /\ IsSome(Unwrap(config).ping_interval)
                               THEN AsU64(Unwrap(Unwrap(config).ping_interval))
                               ELSE interval]

\* get_ws_url: the Result and the value ping_interval_secs holds afterwards
get_ws_url(resp, interval) ==
    IF ~resp.http_ok THEN [ok |-> FALSE, interval |-> interval]
    ELSE IF resp.code # 0 THEN [ok |-> FALSE, interval |-> interval]
    ELSE IF IsNone(resp.data) THEN [ok |-> FALSE, interval |-> interval]
    ELSE LET config == Unwrap(resp.data).client_config
         IN  [ok |-> TRUE,
              interval |-> IF IsSome(config) /\ IsSome(Unwrap(config).ping_interval)
                               THEN AsU64(Unwrap(Unwrap(config).ping_interval))
                               ELSE interval]

(***************************************************************************)
(* History records.                                                        *)
(***************************************************************************)
Ev(kind, frame, val, ok) == [kind |-> kind, frame |-> frame, val |-> val, ok |-> ok]
NewSess == [discovery |-> "none", code |-> None, supplied |-> None, carried |-> None,
            opened |-> FALSE, spawned |-> FALSE, exit |-> "none"]

\* relay server, AppState::new(): no room, nobody connected.  A connection
\* is "none" (not open: never opened, or closed and gone), "open", or
\* "ending" (one of its two tasks has ended, remove_room not yet called).
TaskIds == {"T", "U"}
Clients == {"c1", "c2", "c3"}
NoConn == [state |-> "none", task |-> "", chan |-> 0]
AppState_new ==
    /\ rooms = [t \in TaskIds |-> None]
    /\ conns = [c \in Clients |-> NoConn]
    /\ chans = 0
    /\ sends = <<>>

\* VfsConfig::new(): no mapping; nothing has been looked up
VfsConfig_new ==
    /\ mappings = <<>>
    /\ query = None
    /\ resolved = None

\* RemoteWorker::new(): no child, no stdin; run() has not been called
RemoteWorker_new ==
    /\ wkPc = "new"
    /\ child = None
    /\ stdin = None
    /\ inbox = <<>>
    /\ outbox = <<>>
    /\ cmds = <<>>

Init ==
    /\ AppState_new
    /\ VfsConfig_new
    /\ RemoteWorker_new
    /\ attempt = 0
    /\ pc = "call"
    /\ result = "none"
    /\ connected = FALSE
    /\ ping_interval_secs = U64(DEFAULT_PING_INTERVAL)
    /\ lock = "free"
    /\ hbPc = "none"
    /\ hbInterval = U64(0)
    /\ hbAborted = FALSE
    /\ hbWrites = <<>>
    /\ cur = NoMsg
    /\ events = <<>>
    /\ msgs = 0
    /\ lastResult = "none"
    /\ prevResult = "none"
    /\ sess = NewSess

hbVars == <<hbPc, hbInterval, hbAborted, hbWrites>>
rxVars == <<cur, events, msgs, lastResult, prevResult>>

(***************************************************************************)
(* run_connect and connect() up to the receive loop.                       *)
(***************************************************************************)
\* run_connect: client.connect() is called (first time, or after the sleep).
\* An aborted heartbeat that was still running reaches its next suspension,
\* where it is dropped, within the 5 s sleep: it is gone by now.
Connect ==
    /\ pc = "call"
    /\ attempt < MaxAttempts
    /\ hbPc \in {"none", "done", "cancelled"}
    /\ attempt' = attempt + 1
    /\ pc' = "discover"
    /\ lock' = "free"
    /\ hbPc' = "none"
    /\ hbAborted' = FALSE
    /\ hbWrites' = <<>>
    /\ cur' = NoMsg
    /\ events' = <<>>
    /\ msgs' = 0
    /\ lastResult' = "none"
    /\ prevResult' = "none"
    /\ sess' = NewSess
    /\ UNCHANGED <<result, connected, ping_interval_secs, hbInterval>>
    /\ UNCHANGED wsRest

\* connect(): self.get_ws_url().await?
Discover(resp) ==
    /\ pc = "discover"
    /\ LET r == get_ws_url(resp, ping_interval_secs)
       IN  /\ ping_interval_secs' = r.interval
           /\ IF r.ok
                 THEN /\ pc' = "open"
                      /\ sess' = [sess EXCEPT !.discovery = "ok",
                                               !.supplied = ping_interval(resp),
                                               !.carried = config_ping_interval(resp),
                                               !.code = IF resp.http_ok
                                                            THEN Some(resp.code) ELSE None]
                      /\ UNCHANGED result
                 ELSE /\ pc' = "returned"
                      /\ result' = "Err"
                      /\ sess' = [sess EXCEPT !.discovery = "err",
                                               !.code = IF resp.http_ok
                                                            THEN Some(resp.code) ELSE None]
    /\ UNCHANGED <<attempt, connected, lock>>
    /\ UNCHANGED hbVars
    /\ UNCHANGED rxVars
    /\ UNCHANGED wsRest

\* connect(): connect_async(&ws_url).await?
OpenSocket(ok) ==
    /\ pc = "open"
    /\ IF ok
          THEN /\ pc' = "opened"
               /\ sess' = [sess EXCEPT !.opened = TRUE]
               /\ UNCHANGED result
          ELSE /\ pc' = "returned"
               /\ result' = "Err"
               /\ UNCHANGED sess
    /\ UNCHANGED <<attempt, connected, ping_interval_secs, lock>>
    /\ UNCHANGED hbVars
    /\ UNCHANGED rxVars
    /\ UNCHANGED wsRest

\* connect(): split, new Mutex, connected.store(true), tokio::spawn(heartbeat)
SessionStart ==
    /\ pc = "opened"
    /\ connected' = TRUE
    /\ lock' = "free"
    /\ hbPc' = "start"
    /\ sess' = [sess EXCEPT !.spawned = TRUE]
    /\ pc' = "read"
    /\ UNCHANGED <<attempt, result, ping_interval_secs, hbInterval, hbAborted, hbWrites>>
    /\ UNCHANGED rxVars
    /\ UNCHANGED wsRest

\* a reconnect loop that gives up after an error
Resleep_GiveUpOnErr ==
    /\ pc = "returned"
    /\ result = "Ok"
    /\ pc' = "call"
    /\ UNCHANGED <<attempt, result, connected, ping_interval_secs, lock, sess>>
    /\ UNCHANGED hbVars
    /\ UNCHANGED rxVars
    /\ UNCHANGED wsRest

\* run_connect: the match arm logs, then sleep(5 s) and loop
Resleep ==
    /\ pc = "returned"
    /\ pc' = "call"
    /\ UNCHANGED <<attempt, result, connected, ping_interval_secs, lock, sess>>
    /\ UNCHANGED hbVars
    /\ UNCHANGED rxVars
    /\ UNCHANGED wsRest

(***************************************************************************)
(* The receive loop.                                                       *)
(***************************************************************************)
Entered(frame) == [i \in 1..Len(handle_message(frame)) |->
                      Ev("enter", None, handle_message(frame)[i], TRUE)]

\* handle_data_frame that decodes the payload first and returns the decode
\* error before send_ack is reached
FirstStep_DecodeFirst(frame) ==
    LET calls == handle_message(frame)
        last == IF calls = <<>> THEN "none" ELSE calls[Len(calls)]
    IN  CASE last = "handle_data_frame" ->
                 IF IsSome(ack_frame(frame)) /\ decode_payload(frame).ok
                     THEN "ack_lock" ELSE "payload"
          [] last = "send_pong" -> "pong_lock"
          [] OTHER -> "read"

\* where handling a decoded frame first waits: the ack's or the pong's lock,
\* or nowhere
FirstStep(frame) ==
    LET calls == handle_message(frame)
        last == IF calls = <<>> THEN "none" ELSE calls[Len(calls)]
    IN  CASE last = "handle_data_frame" ->
                 IF IsSome(ack_frame(frame)) THEN "ack_lock" ELSE "payload"
          [] last = "send_pong" -> "pong_lock"
          [] OTHER -> "read"

\* a receive loop that leaves (`?`) on a handler error
AfterHandlerError_Break == "abort"

\* if let Err(e) = self.handle_message(..).await { tracing::error!(..) }:
\* where the loop goes after a handler error
AfterHandlerError == "read"

\* a receive loop that reads the next message while the handler of the
\* previous one still waits for the write lock or works on its payload
RxRead_Reentrant(m) ==
    /\ pc \in {"read", "ack_lock", "pong_lock", "payload"}
    /\ m \notin Terminal => msgs < MaxMsgs
    /\ cur' = m
    /\ msgs' = msgs + 1
    /\ prevResult' = lastResult
    /\ CASE m.kind = "close" ->
                /\ connected' = FALSE
                /\ sess' = [sess EXCEPT !.exit = "close"]
                /\ pc' = "abort"
                /\ lastResult' = "none"
                /\ events' = <<>>
         [] m.kind = "error" ->
                /\ connected' = FALSE
                /\ sess' = [sess EXCEPT !.exit = "error"]
                /\ pc' = "abort"
                /\ lastResult' = "none"
                /\ events' = <<>>
         [] m.kind = "eos" ->
                /\ sess' = [sess EXCEPT !.exit = "eos"]
                /\ pc' = "abort"
                /\ lastResult' = "none"
                /\ events' = <<>>
                /\ UNCHANGED connected
         [] m.kind = "binary" /\ IsNone(m.frame) ->
                \* Frame::decode(data)? fails, the loop logs the error
                /\ pc' = AfterHandlerError
                /\ lastResult' = "Err:frame"
                /\ events' = <<>>
                /\ UNCHANGED <<connected, sess>>
         [] m.kind = "binary" /\ IsSome(m.frame) ->
                /\ pc' = FirstStep(Unwrap(m.frame))
                /\ lastResult' = IF FirstStep(Unwrap(m.frame)) = "read"
                                     THEN "Ok" ELSE "pending"
                /\ events' = Entered(Unwrap(m.frame))
                /\ UNCHANGED <<connected, sess>>
         [] OTHER ->
                \* native ping, pong, text: logged or ignored
                /\ pc' = "read"
                /\ lastResult' = "none"
                /\ events' = <<>>
                /\ UNCHANGED <<connected, sess>>
    /\ UNCHANGED <<attempt, result, ping_interval_secs, lock>>
    /\ UNCHANGED hbVars
    /\ UNCHANGED wsRest

\* a receive loop that takes a text message for the end of the session
RxRead_TextCloses(m) ==
    /\ pc = "read"
    /\ m \notin Terminal => msgs < MaxMsgs
    /\ cur' = m
    /\ msgs' = msgs + 1
    /\ prevResult' = lastResult
    /\ CASE m.kind \in {"close", "text"} ->
                /\ connected' = FALSE
                /\ sess' = [sess EXCEPT !.exit = "close"]
                /\ pc' = "abort"
                /\ lastResult' = "none"
                /\ events' = <<>>
         [] m.kind = "error" ->
                /\ connected' = FALSE
                /\ sess' = [sess EXCEPT !.exit = "error"]
                /\ pc' = "abort"
                /\ lastResult' = "none"
                /\ events' = <<>>
         [] m.kind = "eos" ->
                /\ sess' = [sess EXCEPT !.exit = "eos"]
                /\ pc' = "abort"
                /\ lastResult' = "none"
                /\ events' = <<>>
                /\ UNCHANGED connected
         [] m.kind = "binary" /\ IsNone(m.frame) ->
                \* Frame::decode(data)? fails, the loop logs the error
                /\ pc' = AfterHandlerError
                /\ lastResult' = "Err:frame"
                /\ events' = <<>>
                /\ UNCHANGED <<connected, sess>>
         [] m.kind = "binary" /\ IsSome(m.frame) ->
                /\ pc' = FirstStep(Unwrap(m.frame))
                /\ lastResult' = IF FirstStep(Unwrap(m.frame)) = "read"
                                     THEN "Ok" ELSE "pending"
                /\ events' = Entered(Unwrap(m.frame))
                /\ UNCHANGED <<connected, sess>>
         [] OTHER ->
                \* native ping, pong, text: logged or ignored
                /\ pc' = "read"
                /\ lastResult' = "none"
                /\ events' = <<>>
                /\ UNCHANGED <<connected, sess>>
    /\ UNCHANGED <<attempt, result, ping_interval_secs, lock>>
    /\ UNCHANGED hbVars
    /\ UNCHANGED wsRest

\* while let Some(msg) = read.next().await { match msg { ... } }
RxRead(m) ==
    /\ pc = "read"
    /\ m \notin Terminal => msgs < MaxMsgs
    /\ cur' = m
    /\ msgs' = msgs + 1
    /\ prevResult' = lastResult
    /\ CASE m.kind = "close" ->
                /\ connected' = FALSE
                /\ sess' = [sess EXCEPT !.exit = "close"]
                /\ pc' = "abort"
                /\ lastResult' = "none"
                /\ events' = <<>>
         [] m.kind = "error" ->
                /\ connected' = FALSE
                /\ sess' = [sess EXCEPT !.exit = "error"]
                /\ pc' = "abort"
                /\ lastResult' = "none"
                /\ events' = <<>>
         [] m.kind = "eos" ->
                /\ sess' = [sess EXCEPT !.exit = "eos"]
                /\ pc' = "abort"
                /\ lastResult' = "none"
                /\ events' = <<>>
                /\ UNCHANGED connected
         [] m.kind = "binary" /\ IsNone(m.frame) ->
                \* Frame::decode(data)? fails, the loop logs the error
                /\ pc' = AfterHandlerError
                /\ lastResult' = "Err:frame"
                /\ events' = <<>>
                /\ UNCHANGED <<connected, sess>>
         [] m.kind = "binary" /\ IsSome(m.frame) ->
                /\ pc' = FirstStep(Unwrap(m.frame))
                /\ lastResult' = IF FirstStep(Unwrap(m.frame)) = "read"
                                     THEN "Ok" ELSE "pending"
                /\ events' = Entered(Unwrap(m.frame))
                /\ UNCHANGED <<connected, sess>>
         [] OTHER ->
                \* native ping, pong, text: logged or ignored
                /\ pc' = "read"
                /\ lastResult' = "none"
                /\ events' = <<>>
                /\ UNCHANGED <<connected, sess>>
    /\ UNCHANGED <<attempt, result, ping_interval_secs, lock>>
    /\ UNCHANGED hbVars
    /\ UNCHANGED wsRest

\* send_ack: write.lock().await
RxAckLock ==
    /\ pc = "ack_lock"
    /\ lock = "free"
    /\ lock' = "rx"
    /\ pc' = "ack_send"
    /\ UNCHANGED <<attempt, result, connected, ping_interval_secs, sess>>
    /\ UNCHANGED hbVars
    /\ UNCHANGED rxVars
    /\ UNCHANGED wsRest

\* a failed ack write that declares the socket dead and leaves the loop
RxAckSend_FailureDisconnects(ok) ==
    /\ pc = "ack_send"
    /\ events' = Append(events, Ev("write", ack_frame(Unwrap(cur.frame)), "ack", ok))
    /\ lock' = "free"
    /\ IF ok
          THEN pc' = "payload" /\ UNCHANGED <<lastResult, connected, sess>>
          ELSE /\ pc' = "abort"
               /\ lastResult' = "Err:ack"
               /\ connected' = FALSE
               /\ sess' = [sess EXCEPT !.exit = "error"]
    /\ UNCHANGED <<attempt, result, ping_interval_secs>>
    /\ UNCHANGED <<cur, msgs, prevResult>>
    /\ UNCHANGED hbVars
    /\ UNCHANGED wsRest

\* a failed ack write that returns without giving the lock back
RxAckSend_HoldsLockOnError(ok) ==
    /\ pc = "ack_send"
    /\ events' = Append(events, Ev("write", ack_frame(Unwrap(cur.frame)), "ack", ok))
    /\ lock' = IF ok THEN "free" ELSE lock
    /\ IF ok
          THEN pc' = "payload" /\ UNCHANGED lastResult
          ELSE pc' = AfterHandlerError /\ lastResult' = "Err:ack"
    /\ UNCHANGED <<attempt, result, connected, ping_interval_secs, sess>>
    /\ UNCHANGED <<cur, msgs, prevResult>>
    /\ UNCHANGED hbVars
    /\ UNCHANGED wsRest

\* a handle_data_frame that goes on to the payload whatever send_ack returned
RxAckSend_IgnoresError(ok) ==
    /\ pc = "ack_send"
    /\ events' = Append(events, Ev("write", ack_frame(Unwrap(cur.frame)), "ack", ok))
    /\ lock' = "free"
    /\ pc' = "payload"
    /\ UNCHANGED lastResult
    /\ UNCHANGED <<attempt, result, connected, ping_interval_secs, sess>>
    /\ UNCHANGED <<cur, msgs, prevResult>>
    /\ UNCHANGED hbVars
    /\ UNCHANGED wsRest

\* send_ack: locked.send(..).await?; the guard is dropped on return
RxAckSend(ok) ==
    /\ pc = "ack_send"
    /\ events' = Append(events, Ev("write", ack_frame(Unwrap(cur.frame)), "ack", ok))
    /\ lock' = "free"
    /\ IF ok
          THEN pc' = "payload" /\ UNCHANGED lastResult
          ELSE pc' = AfterHandlerError /\ lastResult' = "Err:ack"
    /\ UNCHANGED <<attempt, result, connected, ping_interval_secs, sess>>
    /\ UNCHANGED <<cur, msgs, prevResult>>
    /\ UNCHANGED hbVars
    /\ UNCHANGED wsRest

SinkEvents(calls, ok) ==
    [i \in 1..Len(calls) |-> Ev("sink", None, calls[i].sink \o ":" \o calls[i].val, ok)]

\* a handler error that also declares the socket dead
RxPayload_ErrorDisconnects(ok) ==
    /\ pc = "payload"
    /\ LET d == dispatch(Unwrap(cur.frame))
           failed == ~d.ok \/ (d.calls # <<>> /\ ~ok)
       IN  /\ events' = Append(events, Ev("decode", None, "", d.ok)) \o SinkEvents(d.calls, ok)
           /\ lastResult' = IF ~d.ok THEN "Err:payload"
                             ELSE IF d.calls # <<>> /\ ~ok
                                      THEN "Err:sink" \o d.calls[1].sink
                             ELSE IF d.dropped THEN "Ok:dropped"
                             ELSE "Ok"
           /\ pc' = IF failed THEN "abort" ELSE "read"
           /\ connected' = IF failed THEN FALSE ELSE connected
           /\ sess' = IF failed THEN [sess EXCEPT !.exit = "error"] ELSE sess
    /\ UNCHANGED <<attempt, result, ping_interval_secs, lock>>
    /\ UNCHANGED <<cur, msgs, prevResult>>
    /\ UNCHANGED hbVars
    /\ UNCHANGED wsRest

\* handle_data_frame after send_ack: decode_payload, from_str, handle_event.
\* `ok` is whether the sink that is called succeeds.
RxPayload(ok) ==
    /\ pc = "payload"
    /\ LET d == dispatch(Unwrap(cur.frame))
       IN  /\ events' = Append(events, Ev("decode", None, "", d.ok)) \o SinkEvents(d.calls, ok)
           /\ lastResult' = IF ~d.ok THEN "Err:payload"
                             ELSE IF d.calls # <<>> /\ ~ok
                                      THEN "Err:sink" \o d.calls[1].sink
                             ELSE IF d.dropped THEN "Ok:dropped"
                             ELSE "Ok"
           /\ pc' = IF d.ok /\ (d.calls = <<>> \/ ok) THEN "read" ELSE AfterHandlerError
    /\ UNCHANGED <<attempt, result, connected, ping_interval_secs, lock, sess>>
    /\ UNCHANGED <<cur, msgs, prevResult>>
    /\ UNCHANGED hbVars
    /\ UNCHANGED wsRest

\* send_pong: write.lock().await
RxPongLock ==
    /\ pc = "pong_lock"
    /\ lock = "free"
    /\ lock' = "rx"
    /\ pc' = "pong_send"
    /\ UNCHANGED <<attempt, result, connected, ping_interval_secs, sess>>
    /\ UNCHANGED hbVars
    /\ UNCHANGED rxVars
    /\ UNCHANGED wsRest

\* send_pong: locked.send(..).await?
RxPongSend(ok) ==
    /\ pc = "pong_send"
    /\ events' = Append(events,
                        Ev("write", Some(pong_frame(Unwrap(cur.frame).service)), "pong", ok))
    /\ lock' = "free"
    /\ pc' = IF ok THEN "read" ELSE AfterHandlerError
    /\ lastResult' = IF ok THEN "Ok" ELSE "Err:pong"
    /\ UNCHANGED <<attempt, result, connected, ping_interval_secs, sess>>
    /\ UNCHANGED <<cur, msgs, prevResult>>
    /\ UNCHANGED hbVars
    /\ UNCHANGED wsRest

\* leaving the receive loop without heartbeat_handle.abort()
RxAbort_NoAbort(now) ==
    /\ pc = "abort"
    /\ pc' = "final_store"
    /\ UNCHANGED <<attempt, result, connected, ping_interval_secs, lock, sess>>
    /\ UNCHANGED hbVars
    /\ UNCHANGED rxVars
    /\ UNCHANGED wsRest

\* heartbeat_handle.abort(): a task suspended at an await is dropped there
\* (a Mutex guard it holds is released); a task that is running sees the
\* cancellation only at its next suspension (`now` FALSE).
RxAbort(now) ==
    /\ pc = "abort"
    /\ hbAborted' = TRUE
    /\ hbPc' = CASE hbPc \in {"start", "sleep"} -> "cancelled"
                 [] hbPc \in {"check", "lock", "send"} -> IF now THEN "cancelled" ELSE hbPc
                 [] OTHER -> hbPc
    /\ lock' = IF hbPc = "send" /\ now THEN "free" ELSE lock
    /\ pc' = "final_store"
    /\ UNCHANGED <<attempt, result, connected, ping_interval_secs, sess>>
    /\ UNCHANGED <<hbInterval, hbWrites>>
    /\ UNCHANGED rxVars
    /\ UNCHANGED wsRest

\* connect() returning without the final store
RxFinalStore_NoStore ==
    /\ pc = "final_store"
    /\ result' = "Ok"
    /\ pc' = "returned"
    /\ UNCHANGED <<attempt, connected, ping_interval_secs, lock, sess>>
    /\ UNCHANGED hbVars
    /\ UNCHANGED rxVars
    /\ UNCHANGED wsRest

\* connect() handing the transport error of the receive loop to its caller
RxFinalStore_ReturnsError ==
    /\ pc = "final_store"
    /\ connected' = FALSE
    /\ result' = IF sess.exit = "error" THEN "Err" ELSE "Ok"
    /\ pc' = "returned"
    /\ UNCHANGED <<attempt, ping_interval_secs, lock, sess>>
    /\ UNCHANGED hbVars
    /\ UNCHANGED rxVars
    /\ UNCHANGED wsRest

\* self.connected.store(false); Ok(())
RxFinalStore ==
    /\ pc = "final_store"
    /\ connected' = FALSE
    /\ result' = "Ok"
    /\ pc' = "returned"
    /\ UNCHANGED <<attempt, ping_interval_secs, lock, sess>>
    /\ UNCHANGED hbVars
    /\ UNCHANGED rxVars
    /\ UNCHANGED wsRest

(***************************************************************************)
(* The heartbeat task.                                                     *)
(***************************************************************************)
mainVars == <<attempt, pc, result, connected, ping_interval_secs, sess>>

\* a heartbeat that never reads the shared interval and sleeps the default
HbLoad_AlwaysDefault ==
    /\ hbPc = "start"
    /\ hbInterval' = U64(DEFAULT_PING_INTERVAL)
    /\ hbPc' = "sleep"
    /\ UNCHANGED <<hbAborted, hbWrites, lock>>
    /\ UNCHANGED mainVars
    /\ UNCHANGED rxVars
    /\ UNCHANGED wsRest

\* a heartbeat whose first sleep is the default, the shared interval being
\* read only from the second tick on
HbLoad_FirstDefault ==
    /\ hbPc = "start"
    /\ hbInterval' = IF hbWrites = <<>> THEN U64(DEFAULT_PING_INTERVAL)
                                         ELSE ping_interval_secs
    /\ hbPc' = "sleep"
    /\ UNCHANGED <<hbAborted, hbWrites, lock>>
    /\ UNCHANGED mainVars
    /\ UNCHANGED rxVars
    /\ UNCHANGED wsRest

\* loop top: interval_secs = ping_interval_secs.load(); sleep(..).await begins
HbLoad ==
    /\ hbPc = "start"
    /\ hbInterval' = ping_interval_secs
    /\ hbPc' = "sleep"
    /\ UNCHANGED <<hbAborted, hbWrites, lock>>
    /\ UNCHANGED mainVars
    /\ UNCHANGED rxVars
    /\ UNCHANGED wsRest

\* the sleep has elapsed and the task runs again
HbWake ==
    /\ hbPc = "sleep"
    /\ Len(hbWrites) < MaxPings
    /\ hbPc' = "check"
    /\ UNCHANGED <<hbInterval, hbAborted, hbWrites, lock>>
    /\ UNCHANGED mainVars
    /\ UNCHANGED rxVars
    /\ UNCHANGED wsRest

\* a heartbeat that pings without looking at connected
HbCheck_NoCheck ==
    /\ hbPc = "check"
    /\ hbPc' = "lock"
    /\ UNCHANGED <<hbInterval, hbAborted, hbWrites, lock>>
    /\ UNCHANGED mainVars
    /\ UNCHANGED rxVars
    /\ UNCHANGED wsRest

\* if !connected.load() { break; }
HbCheck ==
    /\ hbPc = "check"
    /\ hbPc' = IF connected THEN "lock" ELSE "done"
    /\ UNCHANGED <<hbInterval, hbAborted, hbWrites, lock>>
    /\ UNCHANGED mainVars
    /\ UNCHANGED rxVars
    /\ UNCHANGED wsRest

\* the heartbeat sending without waiting for the Mutex
HbLock_NoMutex ==
    /\ hbPc = "lock"
    /\ lock' = "hb"
    /\ hbPc' = "send"
    /\ UNCHANGED <<hbInterval, hbAborted, hbWrites>>
    /\ UNCHANGED mainVars
    /\ UNCHANGED rxVars
    /\ UNCHANGED wsRest

\* heartbeat_write.lock().await
HbLock ==
    /\ hbPc = "lock"
    /\ lock = "free"
    /\ lock' = "hb"
    /\ hbPc' = "send"
    /\ UNCHANGED <<hbInterval, hbAborted, hbWrites>>
    /\ UNCHANGED mainVars
    /\ UNCHANGED rxVars
    /\ UNCHANGED wsRest

\* a failed heartbeat write that declares the socket dead
HbSend_FailureDisconnects(ok) ==
    /\ hbPc = "send"
    /\ hbWrites' = Append(hbWrites, [frame |-> create_ping_frame(0), ok |-> ok,
                                     slept |-> hbInterval,
                                     exit |-> sess.exit,
                                     returned |-> pc \in {"returned", "call"}])
    /\ lock' = "free"
    /\ hbPc' = IF ~ok THEN "done" ELSE IF hbAborted THEN "cancelled" ELSE "start"
    /\ connected' = IF ok THEN connected ELSE FALSE
    /\ UNCHANGED <<hbInterval, hbAborted>>
    /\ UNCHANGED <<attempt, pc, result, ping_interval_secs, sess>>
    /\ UNCHANGED rxVars
    /\ UNCHANGED wsRest

\* locked.send(ping).await; on error break, else back to the loop top, where
\* an aborted task is dropped at the sleep
HbSend(ok) ==
    /\ hbPc = "send"
    /\ hbWrites' = Append(hbWrites, [frame |-> create_ping_frame(0), ok |-> ok,
                                     slept |-> hbInterval,
                                     exit |-> sess.exit,
                                     returned |-> pc \in {"returned", "call"}])
    /\ lock' = "free"
    /\ hbPc' = IF ~ok THEN "done" ELSE IF hbAborted THEN "cancelled" ELSE "start"
    /\ UNCHANGED <<hbInterval, hbAborted>>
    /\ UNCHANGED mainVars
    /\ UNCHANGED rxVars
    /\ UNCHANGED wsRest

Next ==
    \/ Connect
    \/ \E resp \in Responses : Discover(resp)
    \/ \E ok \in BOOLEAN : OpenSocket(ok)
    \/ SessionStart
    \/ Resleep
    \/ \E m \in Terminal \cup CoreMsgs : RxRead(m)
    \/ RxAckLock
    \/ \E ok \in BOOLEAN : RxAckSend(ok)
    \/ \E ok \in BOOLEAN : RxPayload(ok)
    \/ RxPongLock
    \/ \E ok \in BOOLEAN : RxPongSend(ok)
    \/ \E now \in BOOLEAN : RxAbort(now)
    \/ RxFinalStore
    \/ HbLoad
    \/ HbWake
    \/ HbCheck
    \/ HbLock
    \/ \E ok \in BOOLEAN : HbSend(ok)

Spec == Init /\ [][Next]_vars

(***************************************************************************)
(* The same program with the progress its scheduling gives: a timer that   *)
(* was set fires (the 5 s sleep of run_connect), a task that can run is    *)
(* run by the multi-thread runtime, and a send on the socket completes     *)
(* (with Ok or Err).  Nothing is assumed about the peer: the next inbound  *)
(* message may never come.  The peer sends an event frame, a ping frame    *)
(* or ends the stream.  A task that waits for the free lock gets it (the   *)
(* tokio Mutex wakes its waiters in the order of their requests), and a    *)
(* sink call returns: RxPayload is enabled exactly when pc = "payload" and *)
(* always leaves it, so its weak fairness is []<>(pc # "payload").         *)
(***************************************************************************)
LiveMsgs ==
    {Msg("binary", Some(InFrame(FRAME_METHOD_DATA, 7, EventType \o AllAckHeaders, None,
                                Some(Plain("env:card:choice=1"))))),
     Msg("binary", Some(InFrame(FRAME_METHOD_CONTROL, 7,
                                <<Header(HEADER_TYPE, MSG_TYPE_PING)>>, None, None)))}

NextLive ==
    \/ Connect
    \/ \E resp \in Responses : Discover(resp)
    \/ \E ok \in BOOLEAN : OpenSocket(ok)
    \/ SessionStart
    \/ Resleep
    \/ \E m \in Terminal \cup LiveMsgs : RxRead(m)
    \/ RxAckLock
    \/ \E ok \in BOOLEAN : RxAckSend(ok)
    \/ \E ok \in BOOLEAN : RxPayload(ok)
    \/ RxPongLock
    \/ \E ok \in BOOLEAN : RxPongSend(ok)
    \/ \E now \in BOOLEAN : RxAbort(now)
    \/ RxFinalStore
    \/ HbLoad
    \/ HbWake
    \/ HbCheck
    \/ HbLock
    \/ \E ok \in BOOLEAN : HbSend(ok)

SpecLive ==
    /\ Init /\ [][NextLive]_vars
    /\ WF_vars(Resleep)
    /\ WF_vars(Connect)
    /\ WF_vars(SessionStart)
    /\ WF_vars(RxAckLock)
    /\ WF_vars(\E ok \in BOOLEAN : RxAckSend(ok))
    /\ []<>(pc # "payload")
    /\ WF_vars(RxPongLock)
    /\ WF_vars(\E ok \in BOOLEAN : RxPongSend(ok))
    /\ WF_vars(\E now \in BOOLEAN : RxAbort(now))
    /\ WF_vars(RxFinalStore)
    /\ WF_vars(HbLoad)
    /\ WF_vars(HbCheck)
    /\ WF_vars(HbLock)
    /\ WF_vars(\E ok \in BOOLEAN : HbSend(ok))

(***************************************************************************)
(* The same program while the heartbeat sleeps (no interval elapses within *)
(* a session) and discovery and the socket open succeed: the receive loop  *)
(* on every inbound frame of InFrames.                                     *)
(***************************************************************************)
PlainResponse ==
    [http_ok |-> TRUE, code |-> 0,
     data |-> Some([url |-> "wss://endpoint", client_config |-> None])]

NextFrames ==
    \/ Connect
    \/ Discover(PlainResponse)
    \/ OpenSocket(TRUE)
    \/ SessionStart
    \/ Resleep
    \/ \E m \in Terminal \cup NonTerminal : RxRead(m)
    \/ RxAckLock
    \/ \E ok \in BOOLEAN : RxAckSend(ok)
    \/ \E ok \in BOOLEAN : RxPayload(ok)
    \/ RxPongLock
    \/ \E ok \in BOOLEAN : RxPongSend(ok)
    \/ \E now \in BOOLEAN : RxAbort(now)
    \/ RxFinalStore
    \/ HbLoad

SpecFrames == Init /\ [][NextFrames]_vars

(***************************************************************************)
(* The relay server (src/relay-server/src).  Every websocket connection is *)
(* served by one handle_socket call for the task_id of its URL.  A room is *)
(* a tokio broadcast channel; channels are numbered in the order of their  *)
(* creation.  handle_socket spawns a task that forwards the channel to the *)
(* client and a task that broadcasts the client's text messages, waits for *)
(* one of them to end and then calls remove_room.                          *)
(***************************************************************************)
MaxChans == 2         \* broadcast channels created
MaxSends == 2         \* text messages broadcast

\* AppState::get_or_create_channel: the channel returned and the map after
get_or_create_channel(task_id) ==
    IF IsSome(rooms[task_id])
        THEN [tx |-> Unwrap(rooms[task_id]), rooms |-> rooms, created |-> FALSE]
        ELSE [tx |-> chans + 1,
              rooms |-> [rooms EXCEPT ![task_id] = Some(chans + 1)],
              created |-> TRUE]

\* AppState::remove_room: rooms.remove(task_id)
remove_room(task_id) == [rooms EXCEPT ![task_id] = None]

\* the connections whose forward task receives what is sent on channel tx
Subscribers(tx) == {d \in Clients : conns[d].state = "open" /\ conns[d].chan = tx}
\* the clients connected under a task_id
ConnectedTo(task_id) == {d \in Clients : conns[d].state = "open" /\ conns[d].task = task_id}

\* handle_socket up to the spawns: get_or_create_channel, tx.subscribe()
RelayConnect(c, task_id) ==
    /\ conns[c].state = "none"
    /\ LET r == get_or_create_channel(task_id)
       IN  /\ r.created => chans < MaxChans
           /\ rooms' = r.rooms
           /\ chans' = IF r.created THEN chans + 1 ELSE chans
           /\ conns' = [conns EXCEPT ![c] =
                            [state |-> "open", task |-> task_id, chan |-> r.tx]]
    /\ UNCHANGED sends
    /\ UNCHANGED relayRest

\* recv_task: Ok(Message::Text(text)) => tx_clone.send(text); the forward
\* task of every subscriber passes it on to its client
RelayText(c) ==
    /\ conns[c].state = "open"
    /\ Len(sends) < MaxSends
    /\ sends' = Append(sends, [from |-> c, task |-> conns[c].task,
                               audience |-> ConnectedTo(conns[c].task),
                               delivered |-> Subscribers(conns[c].chan)])
    /\ UNCHANGED <<rooms, conns, chans>>
    /\ UNCHANGED relayRest

\* recv_task: Close or Err => break (or the forward task's send fails): one
\* of the two tasks has ended
RelayClose(c) ==
    /\ conns[c].state = "open"
    /\ conns' = [conns EXCEPT ![c].state = "ending"]
    /\ UNCHANGED <<rooms, chans, sends>>
    /\ UNCHANGED relayRest

\* handle_socket after select!: state.remove_room(&task_id)
RelayRemoveRoom(c) ==
    /\ conns[c].state = "ending"
    /\ rooms' = remove_room(conns[c].task)
    /\ conns' = [conns EXCEPT ![c] = NoConn]
    /\ UNCHANGED <<chans, sends>>
    /\ UNCHANGED relayRest

NextRelay ==
    \/ \E c \in Clients, t \in TaskIds : RelayConnect(c, t)
    \/ \E c \in Clients : RelayText(c)
    \/ \E c \in Clients : RelayClose(c)
    \/ \E c \in Clients : RelayRemoveRoom(c)

SpecRelay == Init /\ [][NextRelay]_relayVars

(***************************************************************************)
(* VfsConfig (src/src-tauri/src/remote_worker.rs).  A path is the sequence *)
(* of its components as std::path compares them; the root is the          *)
(* component "/", which only a path's first component can be, and the      *)
(* empty path has no component.                                            *)
(***************************************************************************)
MaxMappings == 2      \* mappings added to one VfsConfig

RootDir == "/"
is_absolute(path) == path # <<>> /\ path[1] = RootDir

\* Path::strip_prefix: Ok(rest) when every component of base starts path
strip_prefix(path, base) ==
    IF Len(base) <= Len(path) /\ SubSeq(path, 1, Len(base)) = base
        THEN Some(SubSeq(path, Len(base) + 1, Len(path)))
        ELSE None

\* Path::join (PathBuf::push): an absolute path replaces the base
join(base, path) == IF is_absolute(path) THEN path ELSE base \o path

VfsMapping(host, sandbox, readonly) ==
    [host_path |-> host, sandbox_path |-> sandbox, readonly |-> readonly]

RECURSIVE resolve_host_path(_, _)
resolve_host_path(ms, sandbox_path) ==
    IF ms = <<>> THEN None
    ELSE LET rel == strip_prefix(sandbox_path, Head(ms).sandbox_path)
         IN  IF IsSome(rel) THEN Some(join(Head(ms).host_path, Unwrap(rel)))
                            ELSE resolve_host_path(Tail(ms), sandbox_path)

RECURSIVE resolve_sandbox_path(_, _)
resolve_sandbox_path(ms, host_path) ==
    IF ms = <<>> THEN None
    ELSE LET rel == strip_prefix(host_path, Head(ms).host_path)
         IN  IF IsSome(rel) THEN Some(join(Head(ms).sandbox_path, Unwrap(rel)))
                            ELSE resolve_sandbox_path(Tail(ms), host_path)

\* the paths a mapping is made of, and the paths looked up
MappingPaths == {<<>>, <<RootDir, "w">>, <<RootDir, "w", "src">>, <<RootDir, "h">>}
LookupPaths ==
    {<<>>, <<RootDir>>, <<"w">>, <<RootDir, "w">>, <<RootDir, "w", "src">>,
     <<RootDir, "w", "src", "m">>, <<RootDir, "h", "src">>, <<RootDir, "o">>}

\* VfsConfig::add_mapping
AddMapping(host, sandbox, readonly) ==
    /\ Len(mappings) < MaxMappings
    /\ mappings' = Append(mappings, VfsMapping(host, sandbox, readonly))
    /\ query' = None
    /\ resolved' = None
    /\ UNCHANGED vfsRest

\* a call of VfsConfig::resolve_host_path
ResolveHost(path) ==
    /\ query' = Some([fn |-> "resolve_host_path", path |-> path])
    /\ resolved' = resolve_host_path(mappings, path)
    /\ UNCHANGED mappings
    /\ UNCHANGED vfsRest

\* a call of VfsConfig::resolve_sandbox_path
ResolveSandbox(path) ==
    /\ query' = Some([fn |-> "resolve_sandbox_path", path |-> path])
    /\ resolved' = resolve_sandbox_path(mappings, path)
    /\ UNCHANGED mappings
    /\ UNCHANGED vfsRest

NextVfs ==
    \/ \E h \in MappingPaths, sb \in MappingPaths, ro \in BOOLEAN : AddMapping(h, sb, ro)
    \/ \E path \in LookupPaths : ResolveHost(path)
    \/ \E path \in LookupPaths : ResolveSandbox(path)

SpecVfs == Init /\ [][NextVfs]_vfsVars

(***************************************************************************)
(* The remote worker (src/src-tauri/src/remote_worker.rs).  run() spawns   *)
(* one receiver task that reads the relay's messages one after the other   *)
(* and handles each before it reads the next; execute_in_sandbox is        *)
(* awaited inside that loop.  Commands are numbered in the order of their  *)
(* spawn; a child process is known by the number of its command.           *)
(***************************************************************************)
MaxInbound == 3       \* messages the relay sends to the worker

WorkerMsgTypes == {"execute", "input", "terminate", "other"}

\* the command that is running (0: none)
Running == IF IsSome(child) /\ wkPc = "exec" THEN Unwrap(child) ELSE 0
Spawned == Cardinality({i \in DOMAIN cmds : cmds[i].type = "execute" /\ cmds[i].to # 0})
Handled(type, to, running) ==
    [type |-> type, during |-> Head(inbox).during, to |-> to, running |-> running]

\* run(): connect_async, registration, the sender and receiver tasks spawned
WorkerRun(ok) ==
    /\ wkPc = "new"
    /\ wkPc' = IF ok THEN "read" ELSE "done"
    /\ outbox' = IF ok THEN <<"register">> ELSE <<>>
    /\ UNCHANGED <<child, stdin, inbox, cmds>>
    /\ UNCHANGED workerRest

\* the relay delivers a message to the worker's socket
WorkerArrive(type) ==
    /\ wkPc \in {"read", "exec"}
    /\ Len(inbox) + Len(cmds) < MaxInbound
    /\ inbox' = Append(inbox, [type |-> type, during |-> Running])
    /\ UNCHANGED <<wkPc, child, stdin, outbox, cmds>>
    /\ UNCHANGED workerRest

\* receiver task: ws_read.next().await yields a message; "execute" up to the
\* join of the output tasks in execute_in_sandbox, the other types in full
WorkerRead(spawn_ok) ==
    /\ wkPc = "read"
    /\ inbox # <<>>
    /\ inbox' = Tail(inbox)
    /\ LET type == Head(inbox).type
       IN  CASE type = "execute" ->
                    IF spawn_ok
                        THEN /\ stdin' = Some(Spawned + 1)
                             /\ child' = Some(Spawned + 1)
                             /\ outbox' = Append(outbox, "running")
                             /\ cmds' = Append(cmds, Handled(type, Spawned + 1, TRUE))
                             /\ wkPc' = "exec"
                        ELSE /\ outbox' = Append(outbox, "error")
                             /\ cmds' = Append(cmds, Handled(type, 0, FALSE))
                             /\ UNCHANGED <<wkPc, child, stdin>>
             [] type = "input" ->
                    \* written to whatever stdin_arc holds
                    /\ cmds' = Append(cmds, Handled(type, UnwrapOr(stdin, 0),
                                                    IsSome(stdin) /\ child = stdin))
                    /\ UNCHANGED <<wkPc, child, stdin, outbox>>
             [] type = "terminate" ->
                    \* kills whatever child_arc holds, reports, leaves the loop
                    /\ cmds' = Append(cmds, Handled(type, UnwrapOr(child, 0), IsSome(child)))
                    /\ outbox' = Append(outbox, "terminated")
                    /\ wkPc' = "done"
                    /\ UNCHANGED <<child, stdin>>
             [] OTHER ->
                    /\ cmds' = Append(cmds, Handled(type, 0, FALSE))
                    /\ UNCHANGED <<wkPc, child, stdin, outbox>>
    /\ UNCHANGED workerRest

\* execute_in_sandbox from the join of the output tasks on: the command has
\* closed its output and exits (or is killed at the timeout); the exit or
\* the error is reported, *child_guard = None, back to the receive loop
WorkerCommandEnds(timed_out) ==
    /\ wkPc = "exec"
    /\ outbox' = Append(outbox, IF timed_out THEN "error" ELSE "exit")
    /\ child' = None
    /\ wkPc' = "read"
    /\ UNCHANGED <<stdin, inbox, cmds>>
    /\ UNCHANGED workerRest

NextWorker ==
    \/ \E ok \in BOOLEAN : WorkerRun(ok)
    \/ \E type \in WorkerMsgTypes : WorkerArrive(type)
    \/ \E spawn_ok \in BOOLEAN : WorkerRead(spawn_ok)
    \/ \E timed_out \in BOOLEAN : WorkerCommandEnds(timed_out)

SpecWorker == Init /\ [][NextWorker]_workerVars

(***************************************************************************)
(* Properties.                                                             *)
(***************************************************************************)
Decoded == cur.kind = "binary" /\ IsSome(cur.frame)
CurFrame == Unwrap(cur.frame)
HeaderKeys(frame) == {frame.headers[i].key : i \in 1..Len(frame.headers)}
HasAckHeaders(frame) == AckKeys \subseteq HeaderKeys(frame)
FirstTypeIsEvent(frame) ==
    LET types == SelectSeq(frame.headers, LAMBDA h : h.key = HEADER_TYPE)
    IN  types # <<>> /\ types[1].value = MSG_TYPE_EVENT
AckWrites == {i \in DOMAIN events : events[i].kind = "write" /\ events[i].val = "ack"}
PongWrites == {i \in DOMAIN events : events[i].kind = "write" /\ events[i].val = "pong"}
SinkCalls == {i \in DOMAIN events : events[i].kind = "sink"}
Decodes == {i \in DOMAIN events : events[i].kind = "decode"}
InDataHandler ==
    \E i \in DOMAIN events : events[i] = Ev("enter", None, "handle_data_frame", TRUE)
LoopPcs == {"read", "ack_lock", "ack_send", "payload", "pong_lock", "pong_send"}

\* C1: a frame that reaches the data handler gets exactly one ack write
\* (one send call on the write handle) when it carries message_id, sum and
\* seq, and none when one of them is absent; in the latter case the handler
\* goes on to the payload without an error.
C1_AckIffAllThreeHeaders ==
    (Decoded /\ InDataHandler) =>
        /\ Cardinality(AckWrites) <= 1
        /\ ~HasAckHeaders(CurFrame) =>
               /\ AckWrites = {}
               /\ pc \in {"payload", "read"}
               /\ lastResult # "Err:ack"
        /\ HasAckHeaders(CurFrame) =>
               /\ pc \in {"ack_lock", "ack_send"} => AckWrites = {}
               /\ pc \in {"payload", "read"} => Cardinality(AckWrites) = 1

C1_Witness ==
    /\ Decoded /\ InDataHandler
    /\ pc = "read"
    /\ HasAckHeaders(CurFrame)
    /\ \E i \in AckWrites : events[i].ok
    /\ Cardinality(AckWrites) = 1

\* C2: whatever the data handler does with the payload (decode, sink call)
\* comes after the ack write of the same frame, and a frame with the three
\* ack headers has its ack written before the payload is touched, also when
\* the decode then fails or the text is no event.
C2_AckBeforePayload ==
    Decoded =>
        \A j \in Decodes \cup SinkCalls :
            /\ \A i \in AckWrites : i < j
            /\ HasAckHeaders(CurFrame) => \E i \in AckWrites : i < j

C2_Witness ==
    /\ Decoded
    /\ HasAckHeaders(CurFrame)
    /\ \E j \in Decodes : ~events[j].ok /\ \E i \in AckWrites : i < j

\* C3: a decoded frame whose first `type` header is `event` enters the data
\* handler, and only it, whatever its method: the ack is attempted, then the
\* payload is decoded and dispatched.
C3_EventAlwaysData ==
    (Decoded /\ FirstTypeIsEvent(CurFrame)) =>
        /\ events # <<>>
        /\ events[1] = Ev("enter", None, "handle_data_frame", TRUE)
        /\ pc \in {"ack_lock", "ack_send", "payload", "read"}
        /\ (pc = "read" /\ HasAckHeaders(CurFrame)) => AckWrites # {}
        /\ (pc = "read" /\ lastResult # "Err:ack") => Decodes # {}

C3_Witness ==
    /\ Decoded
    /\ FirstTypeIsEvent(CurFrame)
    /\ CurFrame.method \notin {FRAME_METHOD_CONTROL, FRAME_METHOD_DATA}
    /\ pc = "read"
    /\ AckWrites # {}
    /\ \E j \in SinkCalls : events[j].val = "A:1"

\* C4: the heartbeat and the receive loop are never both inside a send on
\* the write handle; whoever is inside a send holds the lock.
C4_WritersExclusive ==
    /\ ~(hbPc = "send" /\ pc \in {"ack_send", "pong_send"})
    /\ hbPc = "send" => lock = "hb"
    /\ pc \in {"ack_send", "pong_send"} => lock = "rx"

C4_Witness == hbPc = "lock" /\ pc = "ack_send" /\ lock = "rx"

\* C5: once the receive loop has observed a close message or a read error,
\* the heartbeat writes no ping on that session's write handle.
C5_NoPingAfterClose ==
    \A i \in DOMAIN hbWrites : hbWrites[i].exit \notin {"close", "error"}

\* C6 as stated: connected is false until the socket of the attempt is open,
\* true only while the receive loop runs, false once connect() has returned.
C6_ConnectedOnlyInLoop ==
    /\ connected => (sess.opened /\ pc \in LoopPcs)
    /\ pc \in {"returned", "call"} => ~connected

\* C6 amended: connected is false until the socket of the attempt is open and
\* the session starts, true throughout the receive loop, and false once
\* connect() has returned on any path; outside the loop it is true only
\* between an end of stream and the final store of connect().
C6_ConnectedLifecycle ==
    /\ connected =>
           /\ sess.opened
           /\ \/ pc \in LoopPcs
              \/ sess.exit = "eos" /\ pc \in {"abort", "final_store"}
    /\ pc \in LoopPcs => connected
    /\ pc \in {"call", "discover", "open", "opened", "returned"} => ~connected

C6_Witness ==
    /\ pc = "returned"
    /\ sess.exit = "eos"
    /\ attempt > 1
    /\ ~connected

\* C7: after a discovery answer with a non-zero code connect() has returned
\* an error, and the attempt has opened no socket, never set connected,
\* started no heartbeat and written or handled nothing.
C7_NonZeroCodeIsFatal ==
    (IsSome(sess.code) /\ Unwrap(sess.code) # 0) =>
        /\ pc \in {"returned", "call"}
        /\ result = "Err"
        /\ ~sess.opened
        /\ ~sess.spawned
        /\ ~connected
        /\ hbPc = "none"
        /\ hbWrites = <<>>
        /\ events = <<>>
        /\ msgs = 0

C7_Witness ==
    /\ IsSome(sess.code) /\ Unwrap(sess.code) # 0
    /\ pc = "returned"
    /\ attempt > 1

\* C8 as stated: Ok(()) after a clean close, the transport error after a
\* read error.
C8_ErrorAfterReadError ==
    pc = "returned" =>
        /\ sess.exit \in {"close", "eos"} => result = "Ok"
        /\ sess.exit = "error" => result = "Err"

\* C8 amended: connect() returns Ok(()) whenever its receive loop has ended,
\* by a close message, an end of stream or a read error alike; it returns an
\* error only when the receive loop was never entered.
C8_OkAfterAnyLoopExit ==
    pc = "returned" =>
        /\ sess.exit \in {"close", "eos", "error"} => result = "Ok"
        /\ sess.exit = "none" => (result = "Err" /\ ~sess.spawned)

C8_Witness == pc = "returned" /\ sess.exit = "error" /\ result = "Ok"

\* C9: a binary message that is no Frame does nothing (no write, no sink
\* call), leaves connected true and the receive loop running, and the
\* message read after it is handled as any other (its ack or pong is sent).
C9_BadFrameSkipped ==
    /\ cur = Msg("binary", None) =>
           /\ events = <<>>
           /\ connected
           /\ pc = "read"
           /\ sess.exit = "none"
           /\ lock # "rx"
    /\ (prevResult = "Err:frame" /\ Decoded /\ pc = "read") =>
           /\ (FirstTypeIsEvent(CurFrame) /\ HasAckHeaders(CurFrame)) =>
                  Cardinality(AckWrites) = 1
           /\ (CurFrame.method = FRAME_METHOD_CONTROL
                  /\ CurFrame.headers = <<Header(HEADER_TYPE, MSG_TYPE_PING)>>) =>
                  Cardinality(PongWrites) = 1

C9_Witness ==
    /\ prevResult = "Err:frame"
    /\ Decoded
    /\ pc = "read"
    /\ \E i \in AckWrites : events[i].ok
    /\ SinkCalls # {}

\* payload texts that are not JSON, or JSON that is no event envelope
BadJsonTexts == {"not json", "{\"a\":1}", "{\"schema\":\"2.0\"}"}
NotAnEnvelope(frame) ==
    /\ IsSome(frame.payload)
    /\ IsNone(frame.payload_encoding)
    /\ Unwrap(frame.payload).stream = "text"
    /\ Unwrap(frame.payload).text \in BadJsonTexts

\* C10: a data frame whose payload text is not JSON, or is JSON but no event
\* envelope, is dropped without an error: no sink call, connected stays
\* true, the loop goes on, and the message read after it is handled.
C10_BadJsonDropped ==
    /\ (Decoded /\ InDataHandler /\ NotAnEnvelope(CurFrame)) =>
           /\ SinkCalls = {}
           /\ connected
           /\ pc \in LoopPcs
           /\ sess.exit = "none"
           /\ pc = "read" => lastResult \in {"Ok:dropped", "Err:ack"}
    /\ (prevResult = "Ok:dropped" /\ Decoded /\ pc = "read"
           /\ FirstTypeIsEvent(CurFrame) /\ HasAckHeaders(CurFrame)) =>
           Cardinality(AckWrites) = 1

C10_Witness ==
    /\ prevResult = "Ok:dropped"
    /\ Decoded
    /\ pc = "read"
    /\ \E i \in AckWrites : events[i].ok
    /\ SinkCalls # {}

HandlerFailures == {"Err:sinkA", "Err:sinkB", "Err:payload"}

\* C11: when handling an event fails (sink A returns an error, sink B cannot
\* be launched, the payload cannot be decompressed) the receive loop goes on
\* reading with connected still true and no exit recorded, and the message
\* read after the failure is handled as any other (its ack or pong is sent).
C11_HandlerFailureKeepsSession ==
    /\ lastResult \in HandlerFailures =>
           /\ pc = "read"
           /\ connected
           /\ sess.exit = "none"
           /\ lock # "rx"
    /\ (prevResult \in HandlerFailures /\ Decoded /\ pc = "read") =>
           /\ (FirstTypeIsEvent(CurFrame) /\ HasAckHeaders(CurFrame)) =>
                  Cardinality(AckWrites) = 1
           /\ (CurFrame.method = FRAME_METHOD_CONTROL
                  /\ CurFrame.headers = <<Header(HEADER_TYPE, MSG_TYPE_PING)>>) =>
                  Cardinality(PongWrites) = 1

C11_Witness ==
    /\ prevResult = "Err:sinkB"
    /\ Decoded
    /\ pc = "read"
    /\ connected
    /\ \E i \in AckWrites : events[i].ok
    /\ \E j \in SinkCalls : events[j].val = "A:1" /\ ~events[j].ok
    /\ lastResult = "Err:sinkA"

\* C12: run_connect never gives up: whatever connect() returned, Ok or Err,
\* the loop sleeps and calls connect() again, so every finished attempt is
\* followed by the start of the next one (as far as the model counts them).
C12_ReconnectAlways ==
    \A n \in 1..(MaxAttempts - 1) : \A r \in {"Ok", "Err"} :
        (pc = "returned" /\ attempt = n /\ result = r)
            ~> (pc = "discover" /\ attempt = n + 1 /\ result = r)

C12_Witness ==
    /\ pc = "discover"
    /\ attempt = 2
    /\ result = "Err"

\* the interval an attempt would use if nothing of earlier attempts were left
OwnInterval == UnwrapOr(sess.supplied, U64(DEFAULT_PING_INTERVAL))

\* C13 as stated: every attempt starts like the first one: connected is
\* false until its session starts, and once its discovery has succeeded the
\* heartbeat interval is the one this discovery supplied, or 30 seconds if it
\* supplied none, whatever earlier attempts received.
C13_AttemptStartsFresh ==
    /\ pc \in {"discover", "open", "opened"} => ~connected
    /\ sess.discovery = "ok" => ping_interval_secs = OwnInterval
    /\ hbPc = "sleep" => hbInterval = OwnInterval

HbStopped == hbPc \in {"done", "cancelled"}

\* C14: whichever way the receive loop ended (close message, read error, end
\* of stream) abort() has been called on the heartbeat before connect()
\* returns; the heartbeat then stops, also when connected is still true (end
\* of stream), and a stopped heartbeat stays stopped for the rest of the
\* attempt, so it writes finitely many pings.
C14_HeartbeatCancelled ==
    /\ []((pc \in {"final_store", "returned"} /\ sess.spawned) => hbAborted)
    /\ \A e \in {"close", "error", "eos"} :
           (pc = "abort" /\ sess.exit = e) ~> HbStopped
    /\ [][HbStopped => (hbPc' \in {"done", "cancelled", "none"}
                          /\ (hbPc' # "none" => hbWrites' = hbWrites))]_vars

C14_Witness ==
    /\ sess.exit = "eos"
    /\ pc = "final_store"
    /\ connected
    /\ hbPc = "cancelled"
    /\ hbWrites # <<>>

FirstTypeIs(frame, t) ==
    LET types == SelectSeq(frame.headers, LAMBDA h : h.key = HEADER_TYPE)
    IN  types # <<>> /\ types[1].value = t
Writes == {i \in DOMAIN events : events[i].kind = "write"}

\* C15: a Control-method frame whose (first) type header is ping is answered
\* by exactly one write and nothing else: a frame with method Control, the
\* inbound frame's service id, the single header type=pong and no payload.
C15_PingAnsweredByOnePong ==
    (Decoded /\ CurFrame.method = FRAME_METHOD_CONTROL
        /\ FirstTypeIs(CurFrame, MSG_TYPE_PING)) =>
        /\ pc \in {"pong_lock", "pong_send", "read"}
        /\ Decodes = {} /\ SinkCalls = {}
        /\ pc \in {"pong_lock", "pong_send"} => Writes = {}
        /\ pc = "read" =>
               /\ Cardinality(Writes) = 1
               /\ \A i \in Writes :
                      events[i].frame =
                          Some([seq_id |-> 0, log_id |-> 0,
                                service |-> CurFrame.service,
                                method |-> FRAME_METHOD_CONTROL,
                                headers |-> <<[key |-> "type", value |-> "pong"]>>,
                                payload_encoding |-> None,
                                payload_type |-> None,
                                payload |-> None])

C15_Witness ==
    /\ Decoded
    /\ CurFrame.method = FRAME_METHOD_CONTROL
    /\ FirstTypeIs(CurFrame, MSG_TYPE_PING)
    /\ Len(CurFrame.headers) > 1
    /\ IsSome(CurFrame.payload)
    /\ CurFrame.service # 0
    /\ pc = "read"
    /\ \E i \in Writes : events[i].ok /\ events[i].val = "pong"

\* the value of the first header of `frame` with key k
FirstValue(frame, k) == SelectSeq(frame.headers, LAMBDA h : h.key = k)[1].value
HeaderSet(frame) == {frame.headers[i] : i \in 1..Len(frame.headers)}

\* C16: every ack written is a Control-method frame with the inbound frame's
\* service id and no payload, whose headers are type=ack, the inbound
\* frame's message_id, sum and seq with their values, and trace_id with the
\* inbound value exactly when the inbound frame has a trace_id; nothing else.
C16_AckCopiesHeaders ==
    \A i \in AckWrites :
        /\ Decoded
        /\ IsSome(events[i].frame)
        /\ LET ack == Unwrap(events[i].frame)
               copied == {[key |-> k, value |-> FirstValue(CurFrame, k)] :
                             k \in {"message_id", "sum", "seq"}
                                   \cup ({"trace_id"} \cap HeaderKeys(CurFrame))}
           IN  /\ ack.method = FRAME_METHOD_CONTROL
               /\ ack.service = CurFrame.service
               /\ ack.seq_id = 0 /\ ack.log_id = 0
               /\ ack.payload = None
               /\ ack.payload_encoding = None
               /\ ack.payload_type = None
               /\ HeaderSet(ack) = {[key |-> "type", value |-> "ack"]} \cup copied
               /\ Len(ack.headers) = Cardinality(HeaderSet(ack))

C16_Witness ==
    /\ Decoded
    /\ pc = "read"
    /\ Cardinality({i \in 1..Len(CurFrame.headers) :
                       CurFrame.headers[i].key = "trace_id"}) = 2
    /\ \E i \in AckWrites :
           /\ events[i].ok
           /\ [key |-> "trace_id", value |-> "t1"] \in HeaderSet(Unwrap(events[i].frame))
           /\ [key |-> "message_id", value |-> "m2"] \in HeaderSet(Unwrap(events[i].frame))

\* C17: a heartbeat tick starts with the test of connected.  If it is false
\* the task ends and the tick writes nothing.  If it is true the tick goes
\* on to take the write lock and then makes one send, of a Control-method
\* frame with the single header type=ping, service 0 and no payload, while
\* holding the lock; only abort() can end the tick before that send.
C17_TickChecksThenPings ==
    /\ [][(hbPc = "check" /\ hbPc' # "check") =>
              /\ hbWrites' = hbWrites
              /\ hbPc' = "cancelled" \/ hbPc' = (IF connected THEN "lock" ELSE "done")
              /\ hbPc' = "cancelled" => hbAborted']_vars
    /\ [][(hbPc' = "lock" /\ hbPc # "lock") => (hbPc = "check" /\ connected)]_vars
    /\ [][(hbPc = "lock" /\ hbPc' # "lock") =>
              /\ hbWrites' = hbWrites
              /\ \/ hbPc' = "cancelled" /\ hbAborted'
                 \/ hbPc' = "send" /\ lock = "free" /\ lock' = "hb"]_vars
    /\ [][(hbPc' = "send" /\ hbPc # "send") => hbPc = "lock"]_vars
    /\ [][(hbPc = "send" /\ hbPc' # "send") =>
              /\ lock = "hb" /\ lock' = "free"
              /\ \/ hbPc' = "cancelled" /\ hbAborted' /\ hbWrites' = hbWrites
                 \/ /\ hbPc' \in {"start", "done", "cancelled"}
                    /\ Len(hbWrites') = Len(hbWrites) + 1
                    /\ SubSeq(hbWrites', 1, Len(hbWrites)) = hbWrites
                    /\ hbWrites'[Len(hbWrites')].frame =
                           [seq_id |-> 0, log_id |-> 0, service |-> 0,
                            method |-> FRAME_METHOD_CONTROL,
                            headers |-> <<[key |-> "type", value |-> "ping"]>>,
                            payload_encoding |-> None, payload_type |-> None,
                            payload |-> None]]_vars
    /\ [][(hbWrites' # hbWrites /\ hbWrites' # <<>>) => hbPc = "send"]_vars

C17_Witness ==
    /\ hbPc = "done"
    /\ ~hbAborted
    /\ ~connected
    /\ Len(hbWrites) = 1
    /\ hbWrites[1].ok

HbTicking == hbPc \in {"sleep", "check", "lock", "send"}

\* C18: within an attempt discovery has succeeded before the socket is open,
\* and the socket is open and connected set before the heartbeat exists; when
\* discovery supplied an interval, every sleep of the heartbeat, the first
\* included, lasts that interval (20 s when 20 was supplied, not 30 s), and
\* every ping was written after a sleep of that length that began after the
\* session became Connected.
C18_FirstSleepUsesDiscovered ==
    /\ sess.opened => sess.discovery = "ok"
    /\ sess.spawned => sess.opened
    /\ (hbPc # "none" \/ hbWrites # <<>>) => sess.spawned
    /\ pc \in {"discover", "open", "opened"} => (hbPc = "none" /\ hbWrites = <<>>)
    /\ IsSome(sess.supplied) =>
           /\ HbTicking => hbInterval = Unwrap(sess.supplied)
           /\ \A i \in DOMAIN hbWrites : hbWrites[i].slept = Unwrap(sess.supplied)
    /\ sess.supplied = Some(<<0, 0, 0, 20>>) =>
           /\ HbTicking => hbInterval = <<0, 0, 0, 20>>
           /\ \A i \in DOMAIN hbWrites : hbWrites[i].slept = <<0, 0, 0, 20>>

C18_Witness ==
    /\ sess.supplied = Some(<<0, 0, 0, 20>>)
    /\ attempt = 1
    /\ Len(hbWrites) = 1
    /\ hbWrites[1].slept = <<0, 0, 0, 20>>
    /\ hbWrites[1].ok
    /\ connected

FailedPings == {i \in DOMAIN hbWrites : ~hbWrites[i].ok}

\* C20: a failed ping write ends the heartbeat task and nothing else: the
\* failed ping is the task's last write, the step changes neither connected
\* nor anything of the receive loop, and as long as the receive loop has not
\* itself read a close, an error or the end of the stream it stays connected
\* and goes on reading and handling messages (acks, pongs, sink calls).
C20_PingFailureEndsOnlyHeartbeat ==
    /\ [](\A i \in FailedPings : i = Len(hbWrites) /\ hbPc = "done")
    /\ []((FailedPings # {} /\ sess.exit = "none") => (connected /\ pc \in LoopPcs))
    /\ []((FailedPings # {} /\ Decoded /\ pc = "read"
              /\ FirstTypeIsEvent(CurFrame) /\ HasAckHeaders(CurFrame)) =>
              Cardinality(AckWrites) = 1)
    /\ [][(Len(hbWrites') > Len(hbWrites) /\ ~hbWrites'[Len(hbWrites')].ok) =>
              /\ hbPc' = "done"
              /\ connected' = connected
              /\ pc' = pc /\ sess' = sess /\ result' = result
              /\ <<cur, events, msgs, lastResult, prevResult>>' =
                     <<cur, events, msgs, lastResult, prevResult>>]_vars

C20_Witness ==
    /\ FailedPings # {}
    /\ hbWrites[Len(hbWrites)].exit = "none"
    /\ hbPc = "done"
    /\ connected
    /\ sess.exit = "none"
    /\ Decoded
    /\ msgs = 2
    /\ pc = "ack_send"
    /\ lock = "rx"

WriteFailures == {"Err:ack", "Err:pong"}

\* C21: when the send of an ack or of a pong fails, the receive loop goes on
\* reading with connected still true, no exit recorded and the lock
\* released, and the message read after the failure is handled as any
\* other (its ack or pong is sent, its event reaches the sink).
C21_WriteFailureKeepsSession ==
    /\ lastResult \in WriteFailures =>
           /\ pc = "read"
           /\ connected
           /\ sess.exit = "none"
           /\ lock # "rx"
           /\ \E i \in Writes : ~events[i].ok
    /\ (prevResult \in WriteFailures /\ Decoded /\ pc = "read") =>
           /\ connected
           /\ (FirstTypeIsEvent(CurFrame) /\ HasAckHeaders(CurFrame)) =>
                  Cardinality(AckWrites) = 1
           /\ (CurFrame.method = FRAME_METHOD_CONTROL
                  /\ CurFrame.headers = <<Header(HEADER_TYPE, MSG_TYPE_PING)>>) =>
                  Cardinality(PongWrites) = 1
           /\ lastResult = "Ok" => \A i \in Writes : events[i].ok

C21_Witness ==
    /\ prevResult = "Err:ack"
    /\ Decoded
    /\ pc = "read"
    /\ connected
    /\ lastResult = "Ok"
    /\ \E i \in AckWrites : events[i].ok
    /\ \E j \in SinkCalls : events[j].ok

\* the payload of `frame` reaches from_str as the text t
CarriesText(frame, t) ==
    /\ IsSome(frame.payload)
    /\ Unwrap(frame.payload).text = t
    /\ \/ Unwrap(frame.payload).stream = "gzip"
       \/ /\ Unwrap(frame.payload).stream = "text"
          /\ frame.payload_encoding \notin {Some("gzip"), Some("GZIP"), Some("Gzip")}
CardTexts == {"env:card:choice=1", "env:card:choice=7(number)", "env:card:nochoice"}

\* C22: a frame that reaches the data handler with message_id, sum and seq
\* and whose payload, compressed or not, is a card.action.trigger envelope
\* gets one ack send carrying its message_id; once that send has succeeded
\* and the handler is done, sink A has been called exactly once, after the
\* ack, with the choice when the choice is a string, and not at all when the
\* choice is absent or no string.  Before the ack nothing reaches the sink.
C22_CardChoiceAckThenSinkA ==
    (Decoded /\ InDataHandler /\ HasAckHeaders(CurFrame)
        /\ \E t \in CardTexts : CarriesText(CurFrame, t)) =>
        /\ pc \in {"ack_lock", "ack_send", "payload", "read"}
        /\ pc \in {"ack_lock", "ack_send", "payload"} => SinkCalls = {}
        /\ pc \in {"payload", "read"} =>
               /\ Cardinality(AckWrites) = 1
               /\ \A i \in AckWrites :
                      [key |-> "message_id", value |-> FirstValue(CurFrame, "message_id")]
                          \in HeaderSet(Unwrap(events[i].frame))
        /\ (pc = "read" /\ \E i \in AckWrites : events[i].ok) =>
               IF CarriesText(CurFrame, "env:card:choice=1")
                   THEN /\ Cardinality(SinkCalls) = 1
                        /\ \A j \in SinkCalls :
                               /\ events[j].val = "A:1"
                               /\ \A i \in AckWrites : i < j
                   ELSE SinkCalls = {}

C22_Witness ==
    /\ Decoded
    /\ CurFrame.method = FRAME_METHOD_DATA
    /\ CurFrame.payload = Some(Gzip("env:card:choice=1"))
    /\ CurFrame.payload_encoding = None
    /\ FirstValue(CurFrame, "message_id") = "m1"
    /\ pc = "read"
    /\ \E i \in AckWrites : events[i].ok
    /\ \E j \in SinkCalls : events[j].val = "A:1" /\ events[j].ok

MsgTexts == {"env:msg:text:{text:2}", "env:msg:text:{text: 1 }", "env:msg:text:{text:3}",
             "env:msg:text:1", "env:msg:text:hello", "env:msg:image: 2 "}
\* the text handle_message_receive takes from the event the frame carries
ExtractedText(frame) ==
    text_content(Unwrap(parse_event_payload(Unwrap(frame.payload).text)).event)

\* C23: for a message-receive event sink B is called, once, exactly when the
\* text taken from the event is "1" or "2" up to surrounding whitespace, and
\* it is given the text without that whitespace; whatever is received, sink
\* B never gets another value than "1" or "2" and sink A never gets a
\* message text.
C23_SinkBOnlyOneOrTwo ==
    /\ \A i \in SinkCalls : events[i].val \in {"A:1", "B:1", "B:2"}
    /\ (Decoded /\ InDataHandler /\ pc = "read" /\ lastResult # "Err:ack"
           /\ \E t \in MsgTexts : CarriesText(CurFrame, t)) =>
           LET text == ExtractedText(CurFrame)
           IN  /\ text \in {"1", " 1 "} =>
                      (Cardinality(SinkCalls) = 1 /\ \A j \in SinkCalls : events[j].val = "B:1")
               /\ text \in {"2", " 2 "} =>
                      (Cardinality(SinkCalls) = 1 /\ \A j \in SinkCalls : events[j].val = "B:2")
               /\ text \notin {"1", " 1 ", "2", " 2 "} => SinkCalls = {}

C23_Witness ==
    /\ Decoded
    /\ pc = "read"
    /\ CarriesText(CurFrame, "env:msg:text:{text: 1 }")
    /\ ExtractedText(CurFrame) = " 1 "
    /\ \E j \in SinkCalls : events[j].val = "B:1" /\ events[j].ok

\* what C24 says the text of each message-receive event of type text is: the
\* string `text` field of the JSON in content, else the content itself
ClaimedText(t) ==
    CASE t = "env:msg:text:{text:2}" -> "2"
      [] t = "env:msg:text:{text: 1 }" -> " 1 "
      [] t = "env:msg:text:{text:3}" -> "3"
      [] t = "env:msg:text:1" -> "1"
      [] t = "env:msg:text:hello" -> "hello"

\* C24 as stated: for a message-receive event of message_type text the text
\* the handler works with is the string `text` field of the JSON in content,
\* and the raw content when content is no JSON or is JSON without a string
\* `text` field.
C24_TextOrRawContent ==
    \A t \in MsgTexts \ {"env:msg:image: 2 "} :
        (Decoded /\ InDataHandler /\ CarriesText(CurFrame, t)) =>
            ExtractedText(CurFrame) = ClaimedText(t)

OtherTypeTexts == {"env:other", "env:Card.Action.Trigger"}

\* C25: an event envelope whose event_type is not exactly
\* card.action.trigger or im.message.receive_v1 (another type, or one of
\* these in another case) leads to no sink call, and its handler ends with
\* Ok: the only error it can end with is that of its own ack send.
C25_UnmatchedTypeDropped ==
    (Decoded /\ InDataHandler /\ \E t \in OtherTypeTexts : CarriesText(CurFrame, t)) =>
        /\ SinkCalls = {}
        /\ pc \in {"ack_lock", "ack_send", "payload", "read"}
        /\ connected
        /\ pc = "read" =>
               /\ lastResult \in {"Ok", "Err:ack"}
               /\ lastResult = "Err:ack" <=> (\E i \in AckWrites : ~events[i].ok)
               /\ lastResult = "Ok" => \E j \in Decodes : events[j].ok

C25_Witness ==
    /\ Decoded
    /\ CarriesText(CurFrame, "env:Card.Action.Trigger")
    /\ pc = "read"
    /\ lastResult = "Ok"
    /\ \E i \in AckWrites : events[i].ok
    /\ \E j \in Decodes : events[j].ok
    /\ SinkCalls = {}

\* whether C26 has the payload of `frame` decompressed
MustInflate(frame) ==
    \/ frame.payload_encoding \in {Some("gzip"), Some("GZIP"), Some("Gzip")}
    \/ Unwrap(frame.payload).first2 = <<31, 139>>

\* C26: for every decoded frame decode_payload gives None when there is no
\* payload; it inflates the payload when payload_encoding is gzip in any
\* case or the bytes start with 0x1f 0x8b, whatever the encoding says or
\* not (giving the inflated text, or an error when the bytes are no gzip
\* member), and gives the bytes as text otherwise.  The data handler's
\* decode step ends accordingly.
C26_DecodePayload ==
    Decoded =>
        /\ IsNone(CurFrame.payload) => decode_payload(CurFrame) = [ok |-> TRUE, text |-> None]
        /\ IsSome(CurFrame.payload) =>
               LET p == Unwrap(CurFrame.payload)
               IN  decode_payload(CurFrame) =
                       IF MustInflate(CurFrame) /\ p.stream # "gzip"
                           THEN [ok |-> FALSE, text |-> None]
                           ELSE [ok |-> TRUE, text |-> Some(p.text)]
        /\ \A j \in Decodes :
               events[j].ok <=>
                   \/ IsNone(CurFrame.payload)
                   \/ ~MustInflate(CurFrame)
                   \/ Unwrap(CurFrame.payload).stream = "gzip"
        /\ (pc = "read" /\ lastResult = "Ok" /\ InDataHandler /\ IsSome(CurFrame.payload)
               /\ Unwrap(CurFrame.payload).text = "env:card:choice=1") =>
               \E j \in SinkCalls : events[j].val = "A:1"

C26_Witness ==
    /\ Decoded
    /\ CurFrame.payload_encoding = Some("deflate")
    /\ CurFrame.payload = Some(Gzip("env:card:choice=1"))
    /\ pc = "read"
    /\ \E j \in Decodes : events[j].ok
    /\ \E j \in SinkCalls : events[j].val = "A:1"

IsPrefix(a, b) == Len(a) <= Len(b) /\ SubSeq(b, 1, Len(a)) = a

\* C27: the receive loop takes the next message only when the handler of
\* the previous one has returned, and only it reads.  Every write and sink
\* call belongs to the message being handled and is added while that
\* message is the current one, so all writes and sink calls of message i
\* precede those of message i+1 and acks go out in the order of arrival.
C27_OneMessageAtATime ==
    /\ [][(msgs' # msgs /\ msgs' # 0) =>
              /\ pc = "read"
              /\ msgs' = msgs + 1
              /\ lastResult # "pending"
              /\ lock # "rx"]_vars
    /\ [][(cur' # cur /\ msgs' # 0) => msgs' = msgs + 1]_vars
    /\ [][(events' # events /\ msgs' = msgs) =>
              /\ cur' = cur
              /\ pc \in {"ack_send", "payload", "pong_send"}
              /\ IsPrefix(events, events')
              /\ Len(events') > Len(events)]_vars
    /\ [](pc \in {"ack_lock", "ack_send", "payload", "pong_lock", "pong_send"} =>
              (Decoded /\ lastResult = "pending"))
    /\ [](pc = "read" => lastResult # "pending")

C27_Witness ==
    /\ msgs = 2
    /\ prevResult = "Ok"
    /\ Decoded
    /\ pc = "read"
    /\ lastResult = "Ok"
    /\ \E i \in AckWrites : events[i].ok
    /\ \E j \in SinkCalls : events[j].val = "B:2"

\* C28: a decoded frame whose (first) type header is not event is routed by
\* its method alone.  A Control frame is never acked, decoded or dispatched,
\* with or without message_id, sum and seq; it causes one pong when its type
\* is ping and no write at all otherwise (type=pong included).  A Data frame
\* enters the data handler (ack, decode, dispatch) and never causes a pong,
\* also when its type is ping.  Any other method causes nothing.
C28_RoutedByMethod ==
    (Decoded /\ ~FirstTypeIs(CurFrame, "event")) =>
        /\ CurFrame.method = 1 =>
               /\ AckWrites = {} /\ Decodes = {} /\ SinkCalls = {}
               /\ ~InDataHandler
               /\ ~FirstTypeIs(CurFrame, "ping") => (Writes = {} /\ pc = "read")
               /\ (FirstTypeIs(CurFrame, "ping") /\ pc = "read") =>
                      Cardinality(PongWrites) = 1
        /\ CurFrame.method = 2 =>
               /\ PongWrites = {}
               /\ InDataHandler
               /\ pc \in {"ack_lock", "ack_send", "payload", "read"}
               /\ (pc = "read" /\ HasAckHeaders(CurFrame)) => Cardinality(AckWrites) = 1
               /\ (pc = "read" /\ lastResult # "Err:ack") => Decodes # {}
        /\ CurFrame.method \notin {1, 2} => (events = <<>> /\ pc = "read")

C28_Witness ==
    /\ Decoded
    /\ CurFrame.method = 1
    /\ FirstTypeIs(CurFrame, "ping")
    /\ HasAckHeaders(CurFrame)
    /\ IsSome(CurFrame.payload)
    /\ pc = "read"
    /\ lastResult = "Ok"
    /\ \E i \in PongWrites : events[i].ok
    /\ AckWrites = {}
    /\ SinkCalls = {}

NativeKinds == {"ping", "pong", "text"}
LoopEnded == sess.spawned /\ pc \in {"abort", "final_store", "returned", "call"}

\* C29 as stated: a native ping, pong or text message is not decoded and
\* causes no ack, no pong frame and no sink call, connected stays as it is
\* and the loop goes on; the loop has ended only after a close message or a
\* read error.
C29_OnlyCloseOrErrorEnds ==
    /\ cur.kind \in NativeKinds =>
           /\ events = <<>>
           /\ lastResult = "none"
           /\ connected
           /\ pc = "read"
           /\ sess.exit = "none"
    /\ LoopEnded => (sess.exit \in {"close", "error"} /\ cur.kind = sess.exit)

\* C29 amended: the same for native ping, pong and text; the loop has ended
\* only after a close message, a read error or the end of the stream.
C29_NativeMessagesIgnored ==
    /\ cur.kind \in NativeKinds =>
           /\ events = <<>>
           /\ lastResult = "none"
           /\ connected
           /\ pc = "read"
           /\ sess.exit = "none"
    /\ LoopEnded => (sess.exit \in {"close", "error", "eos"} /\ cur.kind = sess.exit)
    /\ (sess.spawned /\ pc \in LoopPcs) => sess.exit = "none"

C29_Witness ==
    /\ msgs = 2
    /\ prevResult = "none"
    /\ Decoded
    /\ pc = "read"
    /\ connected
    /\ \E i \in AckWrites : events[i].ok
    /\ \E j \in SinkCalls : events[j].ok

RxBusy == pc \in {"ack_lock", "ack_send", "payload", "pong_lock", "pong_send"}
HbBusy == hbPc \in {"start", "check", "lock", "send"}

RECURSIVE KeepFirst(_, _)
KeepFirst(hs, seen) ==
    IF hs = <<>> THEN <<>>
    ELSE IF Head(hs).key \in seen
             THEN KeepFirst(Tail(hs), seen)
             ELSE <<Head(hs)>> \o KeepFirst(Tail(hs), seen \cup {Head(hs).key})

WithoutLaterDuplicates(frame) == [frame EXCEPT !.headers = KeepFirst(@, {})]
RepeatedKeys(frame) ==
    {k \in HeaderKeys(frame) :
        Cardinality({i \in 1..Len(frame.headers) : frame.headers[i].key = k}) > 1}

\* C31: a frame with repeated header keys is handled as the same frame with
\* every later duplicate removed: it enters the same handlers (routing by
\* the first `type`), and the ack written for it is the ack of that frame
\* (first message_id, sum, seq and trace_id).
C31_FirstHeaderWins ==
    Decoded =>
        LET g == WithoutLaterDuplicates(CurFrame)
        IN  /\ Len(events) >= Len(Entered(g))
            /\ SubSeq(events, 1, Len(Entered(g))) = Entered(g)
            /\ \A i \in DOMAIN events : events[i].kind = "enter" => i <= Len(Entered(g))
            /\ \A i \in AckWrites : events[i].frame = ack_frame(g)
            /\ (pc = "read" /\ lastResult = "Ok" /\ IsSome(ack_frame(g))
                   /\ Entered(g) = <<Ev("enter", None, "handle_data_frame", TRUE)>>)
                  => AckWrites # {}

C31_Witness ==
    /\ Decoded
    /\ pc = "read"
    /\ RepeatedKeys(CurFrame) = {"message_id", "sum", "seq", "trace_id"}
    /\ \E i \in AckWrites :
           /\ events[i].ok
           /\ Unwrap(events[i].frame).headers =
                  <<Header("type", "ack"), Header("message_id", "m2"), Header("sum", "1"),
                    Header("seq", "0"), Header("trace_id", "t1")>>

(***************************************************************************)
(* The interval as seconds.                                                *)
(***************************************************************************)
\* a u64 number of seconds is the integer p
IsSeconds(v, p) == p >= 0 /\ v = U64(p)

\* C32 as stated: when the discovery of a session carries a ping interval p,
\* every sleep of that session's heartbeat lasts exactly p seconds, whatever
\* the sign of p.
C32_SleepsExactlyP ==
    IsSome(sess.carried) =>
        /\ HbTicking => IsSeconds(hbInterval, Unwrap(sess.carried))
        /\ \A i \in DOMAIN hbWrites : IsSeconds(hbWrites[i].slept, Unwrap(sess.carried))

(***************************************************************************)
(* The relay server's rooms.                                               *)
(***************************************************************************)
\* C33 as stated: while a client of a task_id is connected the room of that
\* task_id is in the map, and a step that removes a room leaves no client
\* connected under its task_id.
C33_RoomKeptWhileClients ==
    \A c \in Clients : conns[c].state = "open" => IsSome(rooms[conns[c].task])

\* C34 as stated: every text message sent under a task_id was delivered to
\* every client connected under that task_id at that moment and to no
\* other client: the clients of a task_id share one channel.
C34_DeliveredToRoom ==
    /\ \A i \in DOMAIN sends : sends[i].delivered = sends[i].audience
    /\ \A c, d \in Clients :
           (conns[c].state = "open" /\ conns[d].state = "open"
                /\ conns[c].task = conns[d].task) => conns[c].chan = conns[d].chan

(***************************************************************************)
(* VfsConfig lookups.                                                      *)
(***************************************************************************)
\* the mappings whose `side` path is a prefix of path, in insertion order
MatchesOn(side, path) ==
    {i \in DOMAIN mappings : IsPrefix(mappings[i][side], path)}
Remainder(base, path) == SubSeq(path, Len(base) + 1, Len(path))
Looked(fn) == IsSome(query) /\ Unwrap(query).fn = fn
Path == Unwrap(query).path

\* C35 as stated: resolve_host_path(p) is host_path joined with the
\* remainder of p for the first mapping whose sandbox_path is a prefix of p,
\* and None when no mapping matches; resolve_sandbox_path mirrors it; with a
\* single mapping resolve_sandbox_path(resolve_host_path(p)) = p for every p
\* under the sandbox_path.
C35_ResolveFirstMatchAndRoundTrip ==
    /\ Looked("resolve_host_path") =>
           IF MatchesOn("sandbox_path", Path) = {}
               THEN resolved = None
               ELSE LET m == mappings[Min(MatchesOn("sandbox_path", Path))]
                    IN  resolved = Some(join(m.host_path, Remainder(m.sandbox_path, Path)))
    /\ Looked("resolve_sandbox_path") =>
           IF MatchesOn("host_path", Path) = {}
               THEN resolved = None
               ELSE LET m == mappings[Min(MatchesOn("host_path", Path))]
                    IN  resolved = Some(join(m.sandbox_path, Remainder(m.host_path, Path)))
    /\ (Looked("resolve_host_path") /\ Len(mappings) = 1
           /\ IsPrefix(mappings[1].sandbox_path, Path))
          => /\ IsSome(resolved)
             /\ resolve_sandbox_path(mappings, Unwrap(resolved)) = Some(Path)

(***************************************************************************)
(* One handler pass per frame.                                             *)
(***************************************************************************)
Enters(h) == {i \in DOMAIN events : events[i] = Ev("enter", None, h, TRUE)}

\* C36: a decoded frame enters handle_data_frame at most once, and handling
\* it writes at most one ack, decodes its payload at most once and calls at
\* most one sink; a frame whose type is event goes to handle_data_frame
\* directly, whatever its method, and never through handle_control_frame.
C36_OneHandlerPass ==
    Decoded =>
        /\ Cardinality(Enters("handle_data_frame")) <= 1
        /\ Cardinality(Enters("handle_control_frame")) <= 1
        /\ Cardinality(AckWrites) <= 1
        /\ Cardinality(Decodes) <= 1
        /\ Cardinality(SinkCalls) <= 1
        /\ FirstTypeIs(CurFrame, MSG_TYPE_EVENT) =>
               /\ Enters("handle_control_frame") = {}
               /\ Cardinality(Enters("handle_data_frame")) = 1

C36_Witness ==
    /\ Decoded
    /\ CurFrame.method = FRAME_METHOD_CONTROL
    /\ FirstTypeIs(CurFrame, MSG_TYPE_EVENT)
    /\ pc = "read"
    /\ lastResult = "Ok"
    /\ Cardinality(AckWrites) = 1
    /\ Cardinality(Decodes) = 1
    /\ Cardinality(SinkCalls) = 1
    /\ \A i \in DOMAIN events : events[i].ok

(***************************************************************************)
(* A failed ack ends the handling of its frame.                            *)
(***************************************************************************)
FailedAcks == {i \in AckWrites : ~events[i].ok}

\* C37: once the ack write of a frame has failed, handling the frame is
\* over with that error: its payload is never decoded and no sink is called
\* for it.  A payload is decoded, and a sink called, only after the
\* successful ack write of the frame when the frame carries message_id, sum
\* and seq, and without any ack write when it does not.
C37_FailedAckStopsFrame ==
    Decoded =>
        /\ FailedAcks # {} =>
               /\ pc = "read"
               /\ lastResult = "Err:ack"
               /\ Decodes = {}
               /\ SinkCalls = {}
        /\ \A j \in Decodes \cup SinkCalls :
               IF HasAckHeaders(CurFrame)
                   THEN \E i \in AckWrites : events[i].ok /\ i < j
                   ELSE AckWrites = {}

C37_Witness ==
    /\ Decoded
    /\ CarriesText(CurFrame, "env:card:choice=1")
    /\ HasAckHeaders(CurFrame)
    /\ FailedAcks # {}
    /\ pc = "read"
    /\ lastResult = "Err:ack"
    /\ SinkCalls = {}
    /\ connected

(***************************************************************************)
(* The heartbeat of an attempt that has returned.                          *)
(***************************************************************************)
\* C38 as stated: when connect() has returned the heartbeat it started has
\* stopped, and no ping of that heartbeat is written after the return.
C38_NoPingAfterReturn ==
    /\ (pc \in {"returned", "call"} /\ sess.spawned) => hbPc \in {"done", "cancelled"}
    /\ \A i \in DOMAIN hbWrites : ~hbWrites[i].returned

(***************************************************************************)
(* Input and terminate for a running command.                              *)
(***************************************************************************)
\* C39 as stated: an input message that arrived while a command was running
\* has been written to the stdin of that command while it ran, and a
\* terminate message that arrived while a command was running has killed
\* that command and been answered with the terminated status.
C39_InputAndTerminateReachRunningCommand ==
    \A i \in DOMAIN cmds :
        (cmds[i].type \in {"input", "terminate"} /\ cmds[i].during # 0) =>
            /\ cmds[i].to = cmds[i].during
            /\ cmds[i].running
            /\ cmds[i].type = "terminate" =>
                   \E j \in DOMAIN outbox : outbox[j] = "terminated"

====
